---- MODULE Spec2Model ----
(***************************************************************************)
(* Process locks of the Erlang runtime (erts/emulator/beam/                *)
(* erl_process_lock.c), atomic implementation (ERTS_PROC_LOCK_OWN_IMPL and *)
(* ERTS_PROC_LOCK_ATOMIC_IMPL), built without lock checker and lock        *)
(* counter.  One action per shared-memory step of each function: a step    *)
(* holds at most one atomic operation on p->lock.flags, or code that runs  *)
(* under the pix lock.                                                     *)
(***************************************************************************)
EXTENDS Integers, Sequences, FiniteSets, TLC

\* ------------------------------------------------------------ bounds
\* Highest lock number of the model (the runtime has locks 0..4).
ERTS_PROC_LOCK_MAX_BIT == 2
\* OS threads of the model.
NThreads == 3
\* Largest spin budget of the model (the runtime: 0, 25, 50, 500, 1000..2000).
MaxSpin == 1
\* Calls (lock, unlock, safelock) a thread makes in one run.
MaxCalls == 2
\* Highest lock number the callers of the concurrent runs use.
MaxUsedBit == 1
\* Highest lock number of the words in_order_locks is applied to by itself
\* (the lock numbers of the runtime).
OrderMaxBit == 4

\* ------------------------------------------------------------ constants
ERTS_PROC_LOCK_WAITER_SHIFT == ERTS_PROC_LOCK_MAX_BIT + 1
ERTS_NO_OF_PIX_LOCKS == 2

Threads == 1 .. NThreads
\* Process identifiers in the process table.
Procs == {1, 2}
LockNos == 0 .. ERTS_PROC_LOCK_MAX_BIT
ERTS_PROC_LOCKS_ALL == 2 ^ (ERTS_PROC_LOCK_MAX_BIT + 1) - 1
\* ErtsProcLocks is an unsigned machine word; its low 30 bits are kept.
WordMod == 2 ^ 30

\* ------------------------------------------------------------ ErtsProcLocks
RECURSIVE BitAnd(_, _)
BitAnd(a, b) ==
    IF a = 0 \/ b = 0 THEN 0
    ELSE (a % 2) * (b % 2) + 2 * BitAnd(a \div 2, b \div 2)

BitOr(a, b) == a + b - BitAnd(a, b)
\* a & ~b
BitClear(a, b) == a - BitAnd(a, b)
LockBit(n) == 2 ^ n
WaitBit(n) == 2 ^ (n + ERTS_PROC_LOCK_WAITER_SHIFT)
Has(w, n) == (w \div (2 ^ n)) % 2 = 1
LockFlags(w) == w % (2 ^ ERTS_PROC_LOCK_WAITER_SHIFT)
WaitFlags(w) == w \div (2 ^ ERTS_PROC_LOCK_WAITER_SHIFT)
Bits(m) == {n \in LockNos : Has(m, n)}
SubMasks(m) == {x \in 0 .. m : BitAnd(x, m) = x}
Lowest(S) == CHOOSE n \in S : \A k \in S : n <= k
\* The next lock number >= from that is in mask m (for-loops over lock_no).
NextBit(m, from) == Lowest({n \in Bits(m) : n >= from})
HasNextBit(m, from) == {n \in Bits(m) : n >= from} # {}

\* Variants of in_order_locks that do not stop at the lowest busy lock.
in_order_locks_all(in_use, need_locks) == need_locks
in_order_locks_free(in_use, need_locks) == BitClear(need_locks, in_use)

\* Variant of in_order_locks: the lowest lock in use counts, needed or not.
in_order_locks_held(in_use, need_locks) ==
    LET lowest_busy == BitAnd(in_use, (WordMod - in_use) % WordMod)
    IN  BitAnd(need_locks, (lowest_busy + WordMod - 1) % WordMod)

in_order_locks(in_use, need_locks) ==
    LET busy == BitAnd(in_use, need_locks)
        lowest_busy == BitAnd(busy, (WordMod - busy) % WordMod)
    IN  BitAnd(need_locks, (lowest_busy + WordMod - 1) % WordMod)

PIX(p) == p % ERTS_NO_OF_PIX_LOCKS

\* ------------------------------------------------------------ state
VARIABLES
    flags,     \* flags[p]: p->lock.flags
    queue,     \* queue[p][n]: p->lock.queue[n], first waiter first
    pix,       \* pix[i]: the thread that holds erts_pix_locks[i], or 0
    uflgs,     \* uflgs[t]: tse->uflgs of the thread's waiter object
    uaflgs,    \* uaflgs[t]: tse->uaflgs
    event,     \* event[t]: the thread's event is set
    pc,        \* pc[t]: where thread t is
    lv,        \* lv[t]: the locals of the lock or unlock call t is in
    own,       \* own[t][p]: the locks of p that t owns (history)
    thr_spin_count, \* thr_spin_count[t]: spin budget of t
    calls,     \* calls[t]: how many more calls thread t makes
    sl,        \* sl[t]: the locals of the proc_safelock call t is in
    refc,      \* refc[p]: reference count of process p
    ahead,     \* ahead[t]: the threads that were queued before t on a queue
               \* t was put on, and have not been woken since (history)
    cfg,       \* which threads and processes take part, and the callers' order
    lk,        \* lk[t]: the locals of the erts_pid2proc_opt call t is in
    exiting,   \* exiting[p]: ERTS_PROC_IS_EXITING(p)
    ptab,      \* ptab[i]: the process in slot i of the process table, or 0
    iso        \* iso[t]: the state a measured call of t started in (history)

vars == <<flags, queue, pix, uflgs, uaflgs, event, pc, lv, own,
          thr_spin_count, calls, sl, refc, ahead, cfg, lk, exiting, ptab, iso>>

\* What the steps inside a lock or unlock call never change.
env == <<thr_spin_count, calls, sl, refc, cfg, lk, exiting, ptab, iso>>
Elems(q) == {q[i] : i \in 1 .. Len(q)}

NoFrame ==
    [p |-> 0, locks |-> 0, need_locks |-> 0, olflgs |-> 0, spin_count |-> 0,
     wtr |-> 0, tlocks |-> 0, got_locks |-> 0, lock_no |-> 0, ctx |-> "none",
     trnsfr_lcks |-> 0, xlock_no |-> 0, unset_waiter |-> 0, wake |-> <<>>,
     transferred |-> 0, path |-> "none", had |-> 0, idle |-> 0]

NoSafelock ==
    [active |-> FALSE, a_proc |-> 0, a_have |-> 0, a_need |-> 0,
     b_proc |-> 0, b_have |-> 0, b_need |-> 0, is_managed |-> FALSE,
     p1 |-> 0, need_locks1 |-> 0, have_locks1 |-> 0,
     p2 |-> 0, need_locks2 |-> 0, have_locks2 |-> 0,
     unlock_mask |-> 0, lock_no |-> 0, refc1 |-> 0, refc2 |-> 0,
     stage |-> "none", called |-> <<>>]

\* No erts_pid2proc_opt call: c_p and its locks, the pid asked for (slot
\* and serial), the locks asked for, the flags, and the locals of the call;
\* had, x and refc0 are history: the locks owned on the target and its
\* reference count at the call, and whether the process returned is exiting.
NoLookup ==
    [active |-> FALSE, c_p |-> 0, c_p_have_locks |-> 0,
     pid |-> [pix |-> 0, serial |-> 0], pid_need_locks |-> 0, flags |-> {},
     need_locks |-> 0, proc |-> 0, dec_refc_proc |-> 0, delay |-> 0,
     stage |-> "none", result |-> 0, had |-> 0, x |-> FALSE, refc0 |-> 0]

\* No measured call.
NoIso ==
    [kind |-> "none", alone |-> FALSE, p |-> 0, locks |-> 0, have |-> 0,
     f0 |-> 0, q0 |-> <<>>]

\* The frame of a call that has returned: the arguments, the path taken,
\* and the locks the thread owned on p when it made the call (history).
RetFrame(f, path) ==
    [NoFrame EXCEPT !.p = f.p, !.locks = f.locks, !.path = path, !.had = f.had]

\* erts_proc_lock_init: every lock locked, queues empty; the creating
\* thread (thread 1) owns them.
erts_proc_lock_init_flags == ERTS_PROC_LOCKS_ALL

\* Variant of erts_proc_lock_init: the locks are created unlocked.
erts_proc_lock_init_unlocked(p) ==
    [flags |-> 0, queue |-> [n \in LockNos |-> <<>>]]

\* erts_proc_lock_init(p), lines 1031-1049: the flags word and the queues
\* of the new process p.
erts_proc_lock_init(p) ==
    [flags |-> erts_proc_lock_init_flags, queue |-> [n \in LockNos |-> <<>>]]

\* A run starts when the creating thread has unlocked all but c.held[p].

InitWith(c, spins, ncalls) ==
    /\ cfg = c
    /\ calls = [t \in Threads |-> ncalls]
    /\ sl = [t \in Threads |-> NoSafelock]
    /\ refc = [p \in Procs |-> 1]
    /\ ahead = [t \in Threads |-> {}]
    /\ flags = [p \in Procs |-> BitAnd(erts_proc_lock_init(p).flags, c.held[p])]
    /\ queue = [p \in Procs |-> erts_proc_lock_init(p).queue]
    /\ pix = [i \in {PIX(p) : p \in Procs} |-> 0]
    /\ uflgs = [t \in Threads |-> 0]
    /\ uaflgs = [t \in Threads |-> 0]
    /\ event = [t \in Threads |-> FALSE]
    /\ pc = [t \in Threads |-> "idle"]
    /\ lv = [t \in Threads |-> NoFrame]
    /\ own = [t \in Threads |->
                [p \in Procs |->
                    IF t = 1 THEN BitAnd(erts_proc_lock_init_flags, c.held[p])
                    ELSE 0]]
    /\ thr_spin_count \in [Threads -> spins]
    /\ lk = [t \in Threads |-> NoLookup]
    /\ exiting = [p \in Procs |-> FALSE]
    /\ ptab = [p \in Procs |-> p]
    /\ iso = [t \in Threads |-> NoIso]

\* ------------------------------------------------------------ callers
\* The lock order of the callers: a thread locks only locks above the ones
\* it holds on the same process ("proc"), or above everything it holds on
\* any process, lock number first and process identifier second ("global").
Below(n1, p1, n2, p2) == n1 < n2 \/ (n1 = n2 /\ p1 < p2)

InOrder(t, p, M) ==
    /\ \A n \in Bits(own[t][p]), m \in Bits(M) : n < m
    /\ cfg.order = "global" =>
          \A q \in Procs : \A n \in Bits(own[t][q]), m \in Bits(M) :
              Below(n, q, m, p)

\* A measured call: a thread of cfg.iso may record the state its
\* call starts in (the flags and the queues of the process), and may ask to
\* run alone, so that no other thread takes a step before its next call
\* (history).  An unlock of the locks just locked goes on with the record;
\* any other unlock of a thread of cfg.solo may be recorded, and then runs
\* alone up to its return.
measure(t, kind, p, locks, have) ==
    {NoIso} \cup
    (IF t \in cfg.iso
     THEN {[kind |-> kind, alone |-> a, p |-> p, locks |-> locks,
            have |-> have, f0 |-> flags[p], q0 |-> queue[p]] : a \in BOOLEAN}
     ELSE {})

measure_lock(t, p, M) == measure(t, "lock", p, M, own[t][p])

measure_unlock(t, p, M) ==
    IF iso[t].kind = "lock" /\ pc[t] = "lock_ret" /\ iso[t].p = p
                            /\ iso[t].locks = M
    THEN {[iso[t] EXCEPT !.kind = "pair"]}
    ELSE {NoIso} \cup
         (IF t \in cfg.solo
          THEN {[kind |-> "unlock", alone |-> TRUE, p |-> p, locks |-> M,
                 have |-> own[t][p], f0 |-> flags[p], q0 |-> queue[p]]}
          ELSE {})

measure_safelock(t, a, b, have, need) ==
    IF a \in {0, b}
    THEN measure(t, "safelock", b, BitClear(need, have), have)
    ELSE {NoIso}

\* A measured call of t has returned, or t asked to run alone.
Measured(t) ==
    /\ iso[t].kind # "none"
    /\ \/ iso[t].alone /\ ~(iso[t].kind = "unlock" /\ pc[t] = "unlock_ret")
       \/ iso[t].kind = "pair" /\ pc[t] = "unlock_ret"
       \/ iso[t].kind = "safelock" /\ pc[t] = "safelock_ret"

\* A thread between two calls; lv[t] keeps the call it returned from.
Resting(t) ==
    /\ pc[t] \in {"idle", "lock_ret", "unlock_ret", "safelock_ret", "lookup_ret"}
    /\ ~sl[t].active
    /\ ~lk[t].active

\* ------------------------------------------------------------ lock
\* Variant of erts_proc_raw_trylock: a successful trylock sets every lock flag.
erts_proc_raw_trylock_all(old, locks) ==
    IF BitAnd(old, locks) = 0
    THEN [flags |-> BitOr(old, ERTS_PROC_LOCKS_ALL), busy |-> 0]
    ELSE [flags |-> old, busy |-> old]

\* erts_proc_raw_trylock__: sets the lock flags of 'locks' if none of them
\* is set, and returns the flags found (0 when the locks were taken).
erts_proc_raw_trylock(old, locks) ==
    IF BitAnd(old, locks) = 0
    THEN [flags |-> BitOr(old, locks), busy |-> 0]
    ELSE [flags |-> old, busy |-> old]

\* erts_proc_lock(p, locks): the fast path; erts_proc_lock_failed() takes
\* over when not every lock could be taken.
erts_proc_lock(t, p, locks) ==
    LET r == erts_proc_raw_trylock(flags[p], locks)
        f == [NoFrame EXCEPT !.p = p, !.locks = locks, !.had = own[t][p]]
    IN  /\ flags' = [flags EXCEPT ![p] = r.flags]
        /\ IF r.busy = 0
           THEN /\ own' = [own EXCEPT ![t][p] = BitOr(@, locks)]
                /\ pc' = [pc EXCEPT ![t] = "lock_ret"]
                /\ lv' = [lv EXCEPT ![t] = RetFrame(f, "fast")]
           ELSE /\ own' = own
                /\ pc' = [pc EXCEPT ![t] = "lock_failed"]
                /\ lv' = [lv EXCEPT ![t] =
                            [f EXCEPT !.need_locks = locks,
                                      !.olflgs = r.busy,
                                      !.spin_count = thr_spin_count[t]]]
        /\ UNCHANGED <<queue, pix, uflgs, uaflgs, event>>

\* A thread calls erts_proc_lock.
Lock(t) ==
    /\ Resting(t) /\ t \in cfg.threads \ cfg.look /\ calls[t] > 0
    /\ \E p \in cfg.procs, M \in SubMasks(cfg.locks) \ {0} :
          /\ BitAnd(M, own[t][p]) = 0
          /\ InOrder(t, p, M)
          /\ erts_proc_lock(t, p, M)
          /\ \E m \in measure_lock(t, p, M) : iso' = [iso EXCEPT ![t] = m]
    /\ calls' = [calls EXCEPT ![t] = @ - 1]
    /\ sl' = [sl EXCEPT ![t] = NoSafelock]
    /\ lk' = [lk EXCEPT ![t] = NoLookup]
    /\ UNCHANGED <<thr_spin_count, refc, ahead, cfg, exiting, ptab>>

\* Ghost count of the loop turns of erts_proc_lock_failed since the last
\* successful compare-and-exchange (or since entry), kept up to MaxIdle.
MaxIdle == MaxSpin + 1
\* Variant of spin_exhausted: one more turn is spun.
spin_exhausted_late(spin_count) == spin_count < 0

\* "if (spin_count-- <= 0)": the budget is used up.
spin_exhausted(spin_count) == spin_count <= 0
IdleNext(n) == IF n < MaxIdle THEN n + 1 ELSE n

\* erts_proc_lock_failed: one turn of the while loop (lines 493-535).
erts_proc_lock_failed(t) ==
    /\ pc[t] = "lock_failed"
    /\ LET f == lv[t]
           p == f.p
           can_grab == in_order_locks(f.olflgs, f.need_locks)
           grabbed == BitOr(f.olflgs, can_grab)
       IN  IF can_grab = 0
           THEN IF spin_exhausted(f.spin_count)
                THEN \* wait_for_locks(): tse_fetch, wtr->uflgs = need_locks
                     /\ pc' = [pc EXCEPT ![t] = "wait_for_locks"]
                     /\ lv' = [lv EXCEPT ![t] =
                                 [@ EXCEPT !.spin_count = 0, !.olflgs = 0,
                                           !.idle = 0]]
                     /\ uflgs' = [uflgs EXCEPT ![t] = f.need_locks]
                     /\ UNCHANGED <<flags, own>>
                ELSE /\ lv' = [lv EXCEPT ![t] =
                                 [@ EXCEPT !.spin_count = @ - 1,
                                           !.olflgs = flags[p],
                                           !.idle = IdleNext(@)]]
                     /\ UNCHANGED <<flags, own, pc, uflgs>>
           ELSE IF flags[p] = f.olflgs
                THEN /\ flags' = [flags EXCEPT ![p] = grabbed]
                     /\ own' = [own EXCEPT ![t][p] = BitOr(@, can_grab)]
                     /\ IF BitClear(f.need_locks, can_grab) = 0
                        THEN /\ pc' = [pc EXCEPT ![t] = "lock_ret"]
                             /\ lv' = [lv EXCEPT ![t] = RetFrame(@, "spin")]
                        ELSE /\ pc' = pc
                             /\ lv' = [lv EXCEPT ![t] =
                                  [@ EXCEPT !.olflgs = grabbed,
                                            !.need_locks = BitClear(@, can_grab),
                                            !.spin_count = thr_spin_count[t],
                                            !.idle = 0]]
                     /\ uflgs' = uflgs
                ELSE /\ lv' = [lv EXCEPT ![t] =
                                 [@ EXCEPT !.olflgs = flags[p],
                                           !.idle = IdleNext(@)]]
                     /\ UNCHANGED <<flags, own, pc, uflgs>>
    /\ UNCHANGED <<queue, pix, uaflgs, event, ahead, env>>

\* ------------------------------------------------------------ waiter queues
\* Variants of enqueue_waiter: in front of the queue, and not at all.
enqueue_first(q, wtr) == <<wtr>> \o q
enqueue_none(q, wtr) == q

\* Variant of enqueue_waiter: the waiter is linked in twice.
enqueue_twice(q, wtr) == q \o <<wtr, wtr>>

enqueue_waiter(q, wtr) == Append(q, wtr)
\* Variant of dequeue_waiter: the last waiter is taken.
dequeue_last(q) == [wtr |-> q[Len(q)], queue |-> SubSeq(q, 1, Len(q) - 1)]

\* Variant of dequeue_waiter: the first waiter is left in the queue.
dequeue_keep(q) == [wtr |-> Head(q), queue |-> q]
\* dequeue_waiter returns the first waiter and leaves the rest queued.
dequeue_waiter(q) == [wtr |-> Head(q), queue |-> Tail(q)]

\* Variants of the three operators below: every lock counted as handed
\* over, the waiter left off the wake list, the lock flags cleared
\* instead of the wait flags.
transfer_uflgs_all(wtr_uflgs, lock) == 0
wake_lose(wake, wtr) == wake
transfer_unset_locks(lflgs, unset_waiter) == BitClear(lflgs, unset_waiter)

\* Variant of transfer_unset: the wait flags are left set.
transfer_unset_none(lflgs, unset_waiter) == lflgs

\* transfer_locks, line 315: the lock handed over is no longer needed.
transfer_uflgs(wtr_uflgs, lock) == BitClear(wtr_uflgs, lock)
\* transfer_locks, lines 318-325: wtr->next = wake; wake = wtr.
wake_push(wake, wtr) == <<wtr>> \o wake
\* transfer_locks, lines 331-334: clear the wait flags of the emptied queues.
transfer_unset(lflgs, unset_waiter) ==
    BitClear(lflgs, unset_waiter * 2 ^ ERTS_PROC_LOCK_WAITER_SHIFT)

\* Variant of try_return: wait_for_locks goes on with the pix lock held.
try_return_held(t, w, left) ==
    /\ uflgs' = [uflgs EXCEPT ![w] = left]
    /\ pix' = pix
    /\ IF lv[t].ctx = "wait_for_locks"
       THEN IF left = 0
            THEN /\ uaflgs' = uaflgs
                 /\ pc' = [pc EXCEPT ![t] = "lock_ret"]
                 /\ lv' = [lv EXCEPT ![t] = RetFrame(@, "try")]
            ELSE /\ uaflgs' = [uaflgs EXCEPT ![w] = 1]
                 /\ pc' = [pc EXCEPT ![t] = "tse_reset"]
                 /\ lv' = [lv EXCEPT ![t] = RetFrame(@, "park")]
       ELSE /\ uaflgs' = uaflgs
            /\ pc' = [pc EXCEPT ![t] = "transfer_locks"]
            /\ lv' = [lv EXCEPT ![t] =
                        [@ EXCEPT !.wake = IF left = 0 THEN wake_push(@, w) ELSE @,
                                  !.xlock_no = @ + 1,
                                  !.wtr = 0, !.tlocks = 0, !.got_locks = 0,
                                  !.lock_no = 0, !.ctx = "none"]]

\* try_aquire has finished for waiter w (line 273), and its caller goes on:
\* wait_for_locks (lines 430-438) or transfer_locks (lines 319-327).
try_return(t, w, left) ==
    /\ uflgs' = [uflgs EXCEPT ![w] = left]
    /\ IF lv[t].ctx = "wait_for_locks"
       THEN /\ pix' = [pix EXCEPT ![PIX(lv[t].p)] = 0]
            /\ IF left = 0
               THEN /\ uaflgs' = uaflgs
                    /\ pc' = [pc EXCEPT ![t] = "lock_ret"]
                    /\ lv' = [lv EXCEPT ![t] = RetFrame(@, "try")]
               ELSE /\ uaflgs' = [uaflgs EXCEPT ![w] = 1]
                    /\ pc' = [pc EXCEPT ![t] = "tse_reset"]
                    /\ lv' = [lv EXCEPT ![t] = RetFrame(@, "park")]
       ELSE /\ UNCHANGED <<pix, uaflgs>>
            /\ pc' = [pc EXCEPT ![t] = "transfer_locks"]
            /\ lv' = [lv EXCEPT ![t] =
                        [@ EXCEPT !.wake = IF left = 0 THEN wake_push(@, w) ELSE @,
                                  !.xlock_no = @ + 1,
                                  !.wtr = 0, !.tlocks = 0, !.got_locks = 0,
                                  !.lock_no = 0, !.ctx = "none"]]

\* Variant of wait_for_locks: try_aquire is entered without the pix lock.
wait_for_locks_unlocked(t) ==
    /\ pc[t] = "wait_for_locks"
    /\ pc' = [pc EXCEPT ![t] = "try_aquire"]
    /\ lv' = [lv EXCEPT ![t] =
                [@ EXCEPT !.wtr = t, !.tlocks = uflgs[t], !.got_locks = 0,
                          !.lock_no = 0, !.ctx = "wait_for_locks"]]
    /\ UNCHANGED <<flags, queue, pix, uflgs, uaflgs, event, own, ahead, env>>

\* wait_for_locks, lines 400-422: take the pix lock and enter try_aquire.
wait_for_locks(t) ==
    /\ pc[t] = "wait_for_locks"
    /\ pix[PIX(lv[t].p)] = 0
    /\ pix' = [pix EXCEPT ![PIX(lv[t].p)] = t]
    /\ pc' = [pc EXCEPT ![t] = "try_aquire"]
    /\ lv' = [lv EXCEPT ![t] =
                [@ EXCEPT !.wtr = t, !.tlocks = uflgs[t], !.got_locks = 0,
                          !.lock_no = 0, !.ctx = "wait_for_locks"]]
    /\ UNCHANGED <<flags, queue, uflgs, uaflgs, event, own, ahead, env>>

\* Variant of try_aquire_bor: only the wait flag is set.
try_aquire_bor_wait(lflgs, lock_no) == BitOr(lflgs, WaitBit(lock_no))

\* Line 256: the atomic or that sets the wait flag and the lock flag of a
\* lock at once.
try_aquire_bor(lflgs, lock_no) ==
    BitOr(lflgs, BitOr(WaitBit(lock_no), LockBit(lock_no)))

\* try_aquire, one turn of the for loop at the next lock of 'locks'
\* (lines 243-260, up to the atomic or); it runs under the pix lock.
try_aquire(t) ==
    /\ pc[t] = "try_aquire"
    /\ LET f == lv[t]
           p == f.p
           w == f.wtr
           n == NextBit(f.tlocks, f.lock_no)
           old_lflgs == flags[p]
           enq == [queue EXCEPT ![p][n] = enqueue_waiter(@, w)]
           behind == [ahead EXCEPT ![w] = @ \cup Elems(queue[p][n])]
           left == BitClear(uflgs[w], f.got_locks)
       IN  IF queue[p][n] # <<>>
           THEN \* others already waiting
                /\ queue' = enq
                /\ ahead' = behind
                /\ UNCHANGED <<flags, own>>
                /\ try_return(t, w, left)
           ELSE /\ flags' = [flags EXCEPT ![p] = try_aquire_bor(old_lflgs, n)]
                /\ IF Has(old_lflgs, n)
                   THEN \* didn't get the lock
                        /\ queue' = enq
                        /\ ahead' = behind
                        /\ own' = own
                        /\ try_return(t, w, left)
                   ELSE \* got the lock
                        /\ own' = [own EXCEPT ![w][p] = BitOr(@, LockBit(n))]
                        /\ pc' = [pc EXCEPT ![t] = "try_band"]
                        /\ lv' = [lv EXCEPT ![t] =
                                    [@ EXCEPT !.got_locks = BitOr(@, LockBit(n)),
                                              !.lock_no = n]]
                        /\ UNCHANGED <<queue, pix, uflgs, uaflgs, ahead>>
    /\ UNCHANGED <<event, env>>

\* try_aquire, lines 266-268: remove the wait flag of the lock just taken.
try_band(t) ==
    /\ pc[t] = "try_band"
    /\ LET f == lv[t]
           p == f.p
           w == f.wtr
       IN  /\ flags' = [flags EXCEPT ![p] = BitClear(@, WaitBit(f.lock_no))]
           /\ IF f.got_locks = f.tlocks
              THEN try_return(t, w, BitClear(uflgs[w], f.got_locks))
              ELSE /\ pc' = [pc EXCEPT ![t] = "try_aquire"]
                   /\ lv' = [lv EXCEPT ![t] = [@ EXCEPT !.lock_no = @ + 1]]
                   /\ UNCHANGED <<pix, uflgs, uaflgs>>
    /\ UNCHANGED <<queue, event, own, ahead, env>>

\* wait_for_locks, the wait loop (lines 440-455).
tse_reset(t) ==
    /\ pc[t] = "tse_reset"
    /\ event' = [event EXCEPT ![t] = FALSE]
    /\ pc' = [pc EXCEPT ![t] = "tse_read"]
    /\ UNCHANGED <<flags, queue, pix, uflgs, uaflgs, lv, own, ahead, env>>

\* Variant of tse_read: the loop is left whatever uaflgs holds.
tse_read_leave(t) ==
    /\ pc[t] = "tse_read"
    /\ pc' = [pc EXCEPT ![t] = "lock_ret"]
    /\ UNCHANGED <<flags, queue, pix, uflgs, uaflgs, event, lv, own,
                   ahead, env>>

tse_read(t) ==
    /\ pc[t] = "tse_read"
    /\ pc' = [pc EXCEPT ![t] = IF uaflgs[t] = 0 THEN "lock_ret" ELSE "tse_wait"]
    /\ UNCHANGED <<flags, queue, pix, uflgs, uaflgs, event, lv, own,
                   ahead, env>>

\* erts_tse_wait returns 0 when the event is set; it may also return
\* without the event (spurious wakeup).  EINTR repeats the wait.
tse_wait(t) ==
    /\ pc[t] = "tse_wait"
    /\ event[t]
    /\ pc' = [pc EXCEPT ![t] = "tse_reset"]
    /\ UNCHANGED <<flags, queue, pix, uflgs, uaflgs, event, lv, own,
                   ahead, env>>

tse_wait_spurious(t) ==
    /\ pc[t] = "tse_wait"
    /\ ~event[t]
    /\ pc' = [pc EXCEPT ![t] = "tse_reset"]
    /\ UNCHANGED <<flags, queue, pix, uflgs, uaflgs, event, lv, own,
                   ahead, env>>

\* ------------------------------------------------------------ unlock
\* erts_proc_unlock(p, locks): read the flags ...
erts_proc_unlock(t, p, locks) ==
    /\ pc' = [pc EXCEPT ![t] = "unlock_cas"]
    /\ lv' = [lv EXCEPT ![t] =
                [NoFrame EXCEPT !.p = p, !.locks = locks, !.olflgs = flags[p],
                                !.had = own[t][p]]]
    /\ UNCHANGED <<flags, queue, pix, uflgs, uaflgs, event, own>>

\* A thread calls erts_proc_unlock on locks it owns.
Unlock(t) ==
    /\ Resting(t) /\ t \in cfg.threads \ cfg.look
    /\ (calls[t] > 0 \/ cfg.live)
    /\ \E p \in cfg.procs, M \in SubMasks(cfg.locks) \ {0} :
          /\ BitAnd(M, own[t][p]) = M
          /\ erts_proc_unlock(t, p, M)
          /\ \E m \in measure_unlock(t, p, M) : iso' = [iso EXCEPT ![t] = m]
    /\ calls' = IF cfg.live THEN calls ELSE [calls EXCEPT ![t] = @ - 1]
    /\ sl' = [sl EXCEPT ![t] = NoSafelock]
    /\ lk' = [lk EXCEPT ![t] = NoLookup]
    /\ UNCHANGED <<thr_spin_count, refc, ahead, cfg, exiting, ptab>>

\* Variant of unlock_wait_locks: every lock counts as waited for.
unlock_wait_all(old_lflgs, locks) == locks

\* Variant of unlock_wait_locks: when one of the locks is waited for, all
\* of them are passed on.
unlock_wait_any(old_lflgs, locks) ==
    IF BitAnd(WaitFlags(old_lflgs), locks) # 0 THEN locks ELSE 0

\* The locks of 'locks' whose wait flag is set in old_lflgs.
unlock_wait_locks(old_lflgs, locks) == BitAnd(WaitFlags(old_lflgs), locks)

\* ... and clear, in one atomic step, the lock flags whose wait flag is
\* clear, provided the flags are still as read; otherwise read again.
\* Locks with waiters are left to erts_proc_unlock_failed().
erts_proc_unlock_cas(t) ==
    /\ pc[t] = "unlock_cas"
    /\ LET f == lv[t]
           p == f.p
           old_lflgs == f.olflgs
           wait_locks == unlock_wait_locks(old_lflgs, f.locks)
           want_lflgs == BitClear(old_lflgs, BitClear(f.locks, wait_locks))
       IN  IF want_lflgs # old_lflgs /\ flags[p] # old_lflgs
           THEN /\ lv' = [lv EXCEPT ![t] = [@ EXCEPT !.olflgs = flags[p]]]
                /\ UNCHANGED <<flags, own, pc>>
           ELSE /\ flags' = [flags EXCEPT ![p] =
                               IF want_lflgs # old_lflgs THEN want_lflgs ELSE @]
                /\ own' = [own EXCEPT ![t][p] =
                             BitClear(@, BitClear(f.locks, wait_locks))]
                /\ IF BitAnd(want_lflgs, f.locks) # 0
                   THEN /\ pc' = [pc EXCEPT ![t] = "unlock_failed"]
                        /\ lv' = [lv EXCEPT ![t] =
                                    [@ EXCEPT !.olflgs = 0,
                                       !.trnsfr_lcks = BitAnd(want_lflgs, f.locks)]]
                   ELSE /\ pc' = [pc EXCEPT ![t] = "unlock_ret"]
                        /\ lv' = [lv EXCEPT ![t] = RetFrame(@, "fast")]
    /\ UNCHANGED <<queue, pix, uflgs, uaflgs, event, ahead, env>>

\* erts_proc_unlock_failed: take the pix lock and enter transfer_locks.
erts_proc_unlock_failed(t) ==
    /\ pc[t] = "unlock_failed"
    /\ pix[PIX(lv[t].p)] = 0
    /\ pix' = [pix EXCEPT ![PIX(lv[t].p)] = t]
    /\ pc' = [pc EXCEPT ![t] = "transfer_locks"]
    /\ lv' = [lv EXCEPT ![t] =
                [@ EXCEPT !.transferred = 0, !.wake = <<>>, !.unset_waiter = 0,
                          !.xlock_no = 0]]
    /\ UNCHANGED <<flags, queue, uflgs, uaflgs, event, own, ahead, env>>

\* transfer_locks, one turn of the for loop at the next lock of
\* trnsfr_lcks (lines 301-329), and the end of the loop (lines 331-347).
\* Dequeuing from an empty queue dereferences a null pointer.
transfer_locks(t) ==
    /\ pc[t] = "transfer_locks"
    /\ LET f == lv[t]
           p == f.p
       IN  IF HasNextBit(f.trnsfr_lcks, f.xlock_no)
           THEN LET n == NextBit(f.trnsfr_lcks, f.xlock_no)
                IN  IF queue[p][n] = <<>>
                    THEN /\ pc' = [pc EXCEPT ![t] = "crash"]
                         /\ UNCHANGED <<flags, queue, pix, uflgs, lv, own>>
                    ELSE LET d == dequeue_waiter(queue[p][n])
                             wtr == d.wtr
                             left == transfer_uflgs(uflgs[wtr], LockBit(n))
                             unset == IF d.queue = <<>>
                                      THEN BitOr(f.unset_waiter, LockBit(n))
                                      ELSE f.unset_waiter
                         IN  /\ queue' = [queue EXCEPT ![p][n] = d.queue]
                             /\ uflgs' = [uflgs EXCEPT ![wtr] = left]
                             /\ own' = [own EXCEPT
                                          ![t][p] = BitClear(@, LockBit(n)),
                                          ![wtr][p] = BitOr(@, LockBit(n))]
                             /\ IF left # 0
                                THEN /\ pc' = [pc EXCEPT ![t] = "try_aquire"]
                                     /\ lv' = [lv EXCEPT ![t] =
                                          [@ EXCEPT !.transferred = @ + 1,
                                                    !.unset_waiter = unset,
                                                    !.xlock_no = n,
                                                    !.wtr = wtr,
                                                    !.tlocks = left,
                                                    !.got_locks = 0,
                                                    !.lock_no = 0,
                                                    !.ctx = "transfer_locks"]]
                                ELSE /\ pc' = pc
                                     /\ lv' = [lv EXCEPT ![t] =
                                          [@ EXCEPT !.transferred = @ + 1,
                                                    !.unset_waiter = unset,
                                                    !.xlock_no = n + 1,
                                                    !.wake = wake_push(@, wtr)]]
                             /\ UNCHANGED <<flags, pix>>
           ELSE /\ flags' = [flags EXCEPT ![p] =
                               transfer_unset(@, f.unset_waiter)]
                /\ pix' = [pix EXCEPT ![PIX(p)] = 0]
                /\ IF f.wake = <<>>
                   THEN /\ pc' = [pc EXCEPT ![t] = "unlock_ret"]
                        /\ lv' = [lv EXCEPT ![t] = RetFrame(@, "transfer")]
                   ELSE /\ pc' = [pc EXCEPT ![t] = "wake_flag"]
                        /\ lv' = [lv EXCEPT ![t] =
                                    [RetFrame(@, "transfer") EXCEPT
                                        !.wake = f.wake,
                                        !.transferred = f.transferred]]
                /\ UNCHANGED <<queue, uflgs, own>>
    /\ UNCHANGED <<uaflgs, event, ahead, env>>

\* transfer_locks, the wake loop (lines 349-354), after the pix lock is
\* unlocked: clear the waiter's uaflgs ...
wake_flag(t) ==
    /\ pc[t] = "wake_flag"
    /\ uaflgs' = [uaflgs EXCEPT ![Head(lv[t].wake)] = 0]
    /\ ahead' = [u \in Threads |-> ahead[u] \ {Head(lv[t].wake)}]
    /\ pc' = [pc EXCEPT ![t] = "wake_set"]
    /\ UNCHANGED <<flags, queue, pix, uflgs, event, lv, own, env>>

\* ... and set its event.
wake_set(t) ==
    /\ pc[t] = "wake_set"
    /\ event' = [event EXCEPT ![Head(lv[t].wake)] = TRUE]
    /\ IF Tail(lv[t].wake) = <<>>
       THEN /\ pc' = [pc EXCEPT ![t] = "unlock_ret"]
            /\ lv' = [lv EXCEPT ![t] = RetFrame(@, "transfer")]
       ELSE /\ pc' = [pc EXCEPT ![t] = "wake_flag"]
            /\ lv' = [lv EXCEPT ![t] = [@ EXCEPT !.wake = Tail(@)]]
    /\ UNCHANGED <<flags, queue, pix, uflgs, uaflgs, own, ahead, env>>

\* ------------------------------------------------------------ safelock
\* Variant of safelock_order: the process with the larger identifier first.
safelock_order_swapped(a_proc, a_have, a_need, b_proc, b_have, b_need) ==
    IF a_proc # 0 /\ a_proc # b_proc
    THEN IF a_proc > b_proc
         THEN [p1 |-> a_proc, need_locks1 |-> a_need, have_locks1 |-> a_have,
               p2 |-> b_proc, need_locks2 |-> b_need, have_locks2 |-> b_have]
         ELSE [p1 |-> b_proc, need_locks1 |-> b_need, have_locks1 |-> b_have,
               p2 |-> a_proc, need_locks2 |-> a_need, have_locks2 |-> a_have]
    ELSE IF a_proc # 0
    THEN [p1 |-> a_proc, need_locks1 |-> BitOr(a_need, b_need),
          have_locks1 |-> BitOr(a_have, b_have),
          p2 |-> 0, need_locks2 |-> 0, have_locks2 |-> 0]
    ELSE [p1 |-> b_proc, need_locks1 |-> b_need, have_locks1 |-> b_have,
          p2 |-> 0, need_locks2 |-> 0, have_locks2 |-> 0]

\* Variant of safelock_unlock_range: nothing is unlocked.
safelock_unlock_none(need_locks1, need_locks2, lock_no, unlock_mask) ==
    [lock_no |-> lock_no, unlock_mask |-> 0]

\* Variant of safelock_relock: the locks unlocked are not locked again.
safelock_relock_none(need_locks, unlock_locks) == need_locks

\* Variant of safelock_run1: the run ends after its first lock, and so
\* does the lock loop.
safelock_run1_one(need_locks2, lock_no, lock_mask) ==
    [lock_no |-> ERTS_PROC_LOCK_MAX_BIT + 1,
     lock_mask |-> BitOr(lock_mask, LockBit(lock_no))]

\* Variant of safelock_run1: the run takes every lock from lock_no up,
\* whatever the other process needs.
safelock_run1_all(need_locks2, lock_no, lock_mask) ==
    [lock_no |-> ERTS_PROC_LOCK_MAX_BIT + 1,
     lock_mask |-> BitOr(lock_mask,
                         BitClear(ERTS_PROC_LOCKS_ALL, LockBit(lock_no) - 1))]

\* Variant of safelock_run2: the run ends after its first lock, and so
\* does the lock loop.
safelock_run2_skip(need_locks1, lock_no, lock_mask) ==
    [lock_no |-> ERTS_PROC_LOCK_MAX_BIT + 1,
     lock_mask |-> BitOr(lock_mask, LockBit(lock_no))]

\* proc_safelock, lines 600-666: the inter process lock order.
safelock_order(a_proc, a_have, a_need, b_proc, b_have, b_need) ==
    IF a_proc # 0
    THEN IF a_proc < b_proc
         THEN [p1 |-> a_proc, need_locks1 |-> a_need, have_locks1 |-> a_have,
               p2 |-> b_proc, need_locks2 |-> b_need, have_locks2 |-> b_have]
         ELSE IF a_proc > b_proc
         THEN [p1 |-> b_proc, need_locks1 |-> b_need, have_locks1 |-> b_have,
               p2 |-> a_proc, need_locks2 |-> a_need, have_locks2 |-> a_have]
         ELSE [p1 |-> a_proc, need_locks1 |-> BitOr(a_need, b_need),
               have_locks1 |-> BitOr(a_have, b_have),
               p2 |-> 0, need_locks2 |-> 0, have_locks2 |-> 0]
    ELSE [p1 |-> b_proc, need_locks1 |-> b_need, have_locks1 |-> b_have,
          p2 |-> 0, need_locks2 |-> 0, have_locks2 |-> 0]

\* Variant of safelock_unlock_range: the lowest lock needed on p1 is left
\* out of the range as well.
RECURSIVE safelock_unlock_above(_, _, _, _)
safelock_unlock_above(need_locks1, need_locks2, lock_no, unlock_mask) ==
    IF lock_no > ERTS_PROC_LOCK_MAX_BIT
    THEN [lock_no |-> lock_no, unlock_mask |-> unlock_mask]
    ELSE LET um == BitClear(unlock_mask, LockBit(lock_no))
         IN  IF Has(need_locks1, lock_no) \/ Has(need_locks2, lock_no)
             THEN [lock_no |-> lock_no, unlock_mask |-> um]
             ELSE safelock_unlock_above(need_locks1, need_locks2,
                                        lock_no + 1, um)

\* Lines 687-698: the range of locks that needs to be unlocked.
RECURSIVE safelock_unlock_range(_, _, _, _)
safelock_unlock_range(need_locks1, need_locks2, lock_no, unlock_mask) ==
    IF lock_no > ERTS_PROC_LOCK_MAX_BIT \/ Has(need_locks1, lock_no)
    THEN [lock_no |-> lock_no, unlock_mask |-> unlock_mask]
    ELSE LET um == BitClear(unlock_mask, LockBit(lock_no))
         IN  IF Has(need_locks2, lock_no)
             THEN [lock_no |-> lock_no, unlock_mask |-> um]
             ELSE safelock_unlock_range(need_locks1, need_locks2,
                                        lock_no + 1, um)

\* Lines 706 and 716: need_locks |= unlock_locks.
safelock_relock(need_locks, unlock_locks) == BitOr(need_locks, unlock_locks)

\* Lines 744-750: the do-while loop that collects a run of locks for p1.
RECURSIVE safelock_run1(_, _, _)
safelock_run1(need_locks2, lock_no, lock_mask) ==
    LET lock == LockBit(lock_no)
        m == BitOr(lock_mask, lock)
    IN  IF lock_no + 1 <= ERTS_PROC_LOCK_MAX_BIT /\ BitAnd(need_locks2, lock) = 0
        THEN safelock_run1(need_locks2, lock_no + 1, m)
        ELSE [lock_no |-> IF BitAnd(need_locks2, lock) # 0
                          THEN lock_no ELSE lock_no + 1,
              lock_mask |-> m]

\* Lines 757-761: the while loop that collects a run of locks for p2.
RECURSIVE safelock_run2(_, _, _)
safelock_run2(need_locks1, lock_no, lock_mask) ==
    IF lock_no <= ERTS_PROC_LOCK_MAX_BIT
       /\ BitAnd(need_locks1, LockBit(lock_no)) = 0
    THEN safelock_run2(need_locks1, lock_no + 1,
                       BitOr(lock_mask, LockBit(lock_no)))
    ELSE [lock_no |-> lock_no, lock_mask |-> lock_mask]

\* proc_safelock from where s stands up to its next call of
\* erts_proc_unlock (lines 700-723) or erts_proc_lock (lines 738-769), or
\* to its end: the call to make, the reference count to increment before
\* it, and the locals after it.
RECURSIVE safelock_next(_)
safelock_next(s) ==
    IF s.stage = "unlock1"
    THEN LET unlock_locks == BitAnd(s.unlock_mask, s.have_locks1)
             have == BitClear(s.have_locks1, unlock_locks)
             inc == ~s.is_managed /\ have = 0
         IN  IF (s.have_locks1 # 0 \/ s.have_locks2 # 0) /\ unlock_locks # 0
             THEN [call |-> "unlock", p |-> s.p1, locks |-> unlock_locks,
                   inc |-> IF inc THEN s.p1 ELSE 0,
                   s |-> [s EXCEPT !.have_locks1 = have,
                                   !.need_locks1 =
                                       safelock_relock(@, unlock_locks),
                                   !.refc1 = IF inc THEN 1 ELSE @,
                                   !.stage = "unlock2"]]
             ELSE safelock_next([s EXCEPT !.stage = "unlock2"])
    ELSE IF s.stage = "unlock2"
    THEN LET unlock_locks == BitAnd(s.unlock_mask, s.have_locks2)
             have == BitClear(s.have_locks2, unlock_locks)
             inc == ~s.is_managed /\ have = 0
         IN  IF (s.have_locks1 # 0 \/ s.have_locks2 # 0) /\ unlock_locks # 0
             THEN [call |-> "unlock", p |-> s.p2, locks |-> unlock_locks,
                   inc |-> IF inc THEN s.p2 ELSE 0,
                   s |-> [s EXCEPT !.have_locks2 = have,
                                   !.need_locks2 =
                                       safelock_relock(@, unlock_locks),
                                   !.refc2 = IF inc THEN 1 ELSE @,
                                   !.stage = "lock"]]
             ELSE safelock_next([s EXCEPT !.stage = "lock"])
    ELSE IF s.lock_no > ERTS_PROC_LOCK_MAX_BIT
    THEN [call |-> "return", p |-> 0, locks |-> 0, inc |-> 0, s |-> s]
    ELSE IF Has(s.need_locks1, s.lock_no)
    THEN LET r == safelock_run1(s.need_locks2, s.lock_no, 0)
             locks == BitAnd(s.need_locks1, r.lock_mask)
         IN  [call |-> "lock", p |-> s.p1, locks |-> locks, inc |-> 0,
              s |-> [s EXCEPT !.lock_no = r.lock_no,
                              !.have_locks1 = BitOr(@, locks),
                              !.need_locks1 = BitClear(@, locks)]]
    ELSE IF Has(s.need_locks2, s.lock_no)
    THEN LET r == safelock_run2(s.need_locks1, s.lock_no, 0)
             locks == BitAnd(s.need_locks2, r.lock_mask)
         IN  [call |-> "lock", p |-> s.p2, locks |-> locks, inc |-> 0,
              s |-> [s EXCEPT !.lock_no = r.lock_no,
                              !.have_locks2 = BitOr(@, locks),
                              !.need_locks2 = BitClear(@, locks)]]
    ELSE safelock_next([s EXCEPT !.lock_no = @ + 1])

\* proc_safelock on entry, lines 600-698.
safelock_enter(is_managed, a_proc, a_have, a_need, b_proc, b_have, b_need) ==
    LET o == safelock_order(a_proc, a_have, a_need, b_proc, b_have, b_need)
        need_locks1 == BitClear(o.need_locks1, o.have_locks1)
        need_locks2 == BitClear(o.need_locks2, o.have_locks2)
        u == safelock_unlock_range(need_locks1, need_locks2, 0,
                                   ERTS_PROC_LOCKS_ALL)
    IN  [active |-> TRUE, a_proc |-> a_proc, a_have |-> a_have,
         a_need |-> a_need, b_proc |-> b_proc, b_have |-> b_have,
         b_need |-> b_need, is_managed |-> is_managed,
         p1 |-> o.p1, need_locks1 |-> need_locks1,
         have_locks1 |-> o.have_locks1,
         p2 |-> o.p2, need_locks2 |-> need_locks2,
         have_locks2 |-> o.have_locks2,
         unlock_mask |-> u.unlock_mask, lock_no |-> u.lock_no,
         refc1 |-> 0, refc2 |-> 0, stage |-> "unlock1", called |-> <<>>]

\* Variant of proc_safelock: the reference counts taken are kept at the
\* return.
proc_safelock_pinned(t, s) ==
    LET n == safelock_next(s)
    IN  IF n.call = "unlock"
        THEN /\ erts_proc_unlock(t, n.p, n.locks)
             /\ sl' = [sl EXCEPT ![t] =
                         [n.s EXCEPT !.called =
                             Append(@, <<"unlock", n.p, n.locks>>)]]
             /\ refc' = IF n.inc # 0 THEN [refc EXCEPT ![n.inc] = @ + 1]
                        ELSE refc
        ELSE IF n.call = "lock"
        THEN /\ erts_proc_lock(t, n.p, n.locks)
             /\ sl' = [sl EXCEPT ![t] =
                         [n.s EXCEPT !.called =
                             Append(@, <<"lock", n.p, n.locks>>)]]
             /\ refc' = refc
        ELSE /\ pc' = [pc EXCEPT ![t] = "safelock_ret"]
             /\ lv' = [lv EXCEPT ![t] = NoFrame]
             /\ sl' = [sl EXCEPT ![t] =
                         [NoSafelock EXCEPT
                            !.a_proc = s.a_proc, !.a_have = s.a_have,
                            !.a_need = s.a_need, !.b_proc = s.b_proc,
                            !.b_have = s.b_have, !.b_need = s.b_need,
                            !.called = s.called]]
             /\ UNCHANGED <<flags, queue, pix, uflgs, uaflgs, event, own,
                            refc>>

\* proc_safelock goes on from s to its next call, or returns
\* (lines 798-803: the reference counts taken are given back).
proc_safelock(t, s) ==
    LET n == safelock_next(s)
    IN  IF n.call = "unlock"
        THEN /\ erts_proc_unlock(t, n.p, n.locks)
             /\ sl' = [sl EXCEPT ![t] =
                         [n.s EXCEPT !.called =
                             Append(@, <<"unlock", n.p, n.locks>>)]]
             /\ refc' = IF n.inc # 0 THEN [refc EXCEPT ![n.inc] = @ + 1]
                        ELSE refc
        ELSE IF n.call = "lock"
        THEN /\ erts_proc_lock(t, n.p, n.locks)
             /\ sl' = [sl EXCEPT ![t] =
                         [n.s EXCEPT !.called =
                             Append(@, <<"lock", n.p, n.locks>>)]]
             /\ refc' = refc
        ELSE /\ pc' = [pc EXCEPT ![t] = "safelock_ret"]
             /\ lv' = [lv EXCEPT ![t] = NoFrame]
             /\ sl' = [sl EXCEPT ![t] =
                         [NoSafelock EXCEPT
                            !.a_proc = s.a_proc, !.a_have = s.a_have,
                            !.a_need = s.a_need, !.b_proc = s.b_proc,
                            !.b_have = s.b_have, !.b_need = s.b_need,
                            !.called = s.called]]
             /\ refc' = [p \in Procs |->
                           refc[p]
                           - (IF ~s.is_managed /\ s.refc1 = 1 /\ p = s.p1
                              THEN 1 ELSE 0)
                           - (IF ~s.is_managed /\ s.refc2 = 1 /\ p = s.p2
                              THEN 1 ELSE 0)]
             /\ UNCHANGED <<flags, queue, pix, uflgs, uaflgs, event, own>>

\* The need masks a caller that owns 'have' passes: locks of 'locks' and
\* the locks it owns, all of these unless cfg.excess allows to leave some out.
NeedMasks(locks, have) ==
    {n \in SubMasks(BitOr(locks, have)) :
        cfg.excess \/ BitAnd(n, have) = have}

\* A thread calls erts_proc_safelock on one process (a_proc absent: 0), on
\* one process given twice, or on two; the have masks are the locks it owns.
\* Where cfg.excess allows it, the need masks leave out locks it owns.
Safelock(t) ==
    /\ Resting(t) /\ t \in cfg.safe /\ calls[t] > 0
    /\ \E a \in cfg.procs \cup {0}, b \in cfg.procs :
       LET a_have == IF a = 0 THEN 0 ELSE own[t][a]
           b_have == IF a = b THEN 0 ELSE own[t][b]
       IN  /\ cfg.order = "global" => \A q \in Procs \ {a, b} : own[t][q] = 0
           /\ \E a_need \in NeedMasks(IF a = 0 THEN 0 ELSE cfg.locks, a_have),
                 b_need \in NeedMasks(cfg.locks, b_have) :
                 /\ proc_safelock(t, safelock_enter(t \in cfg.managed,
                                                    a, a_have, a_need,
                                                    b, b_have, b_need))
                 /\ \E m \in measure_safelock(t, a, b, BitOr(a_have, b_have),
                                              BitOr(a_need, b_need)) :
                        iso' = [iso EXCEPT ![t] = m]
    /\ calls' = [calls EXCEPT ![t] = @ - 1]
    /\ lk' = [lk EXCEPT ![t] = NoLookup]
    /\ UNCHANGED <<thr_spin_count, ahead, cfg, exiting, ptab>>

\* The erts_proc_unlock or erts_proc_lock call made by proc_safelock has
\* returned.
safelock_continue(t) ==
    /\ pc[t] \in {"lock_ret", "unlock_ret"}
    /\ sl[t].active
    /\ proc_safelock(t, sl[t])
    /\ UNCHANGED <<thr_spin_count, calls, ahead, cfg, lk, exiting, ptab, iso>>

\* ------------------------------------------------------------ lookup
\* ERTS_PROC_LOCK_BUSY: the result of a try-only lookup that found a lock
\* busy; it is no process.
ERTS_PROC_LOCK_BUSY == 0 - 1

P2PFlags == {"ALLOW_OTHER_X", "TRY_LOCK", "INC_REFC"}

\* p->common.id of the process in slot p: the slot and serial 0.  A pid
\* with another serial names a process that is not in the table.
common_id(p) == [pix |-> p, serial |-> 0]
Pids == [pix : Procs, serial : {0, 1}]

\* Variants of lookup_exiting and lookup_match: the target never counts as
\* exiting; any process found in the slot counts as the one asked for.
lookup_exiting_never(fl, proc, entry, x) == FALSE
lookup_exiting_only(fl, proc, entry, x) == x
lookup_match_any(proc, pid) == proc # 0

\* Variant of lookup_continue: the delay of thread progress is left open.
lookup_continue_skip(delay) == delay

\* Lines 967-968: erts_thr_progress_unmanaged_continue() ends the delay an
\* unmanaged thread began (delay = 1); a managed thread began none.
lookup_continue(delay) == 0

\* Variant of lookup_try_only: no lookup is try-only.
lookup_try_never(fl) == FALSE

\* Line 930: flags & ERTS_P2P_FLG_TRY_LOCK.
lookup_try_only(fl) == "TRY_LOCK" \in fl

\* Lines 873-875: the slot holds a process and its identifier is pid.
lookup_match(proc, pid) == proc # 0 /\ common_id(proc) = pid

\* Lines 974-977: what makes the lookup give the process up after locking
\* it.  x is ERTS_PROC_IS_EXITING(proc), entry the table slot read again.
lookup_exiting(fl, proc, entry, x) ==
    IF "ALLOW_OTHER_X" \notin fl THEN x ELSE proc # entry

\* Line 861: need_locks &= ~c_p_have_locks.
lookup_need(pid_need_locks, c_p_have_locks) ==
    BitClear(pid_need_locks, c_p_have_locks)

\* erts_pid2proc_opt returns r (line 997, lines 860 and 865); the frame
\* keeps the arguments and whether the process returned is exiting (history).
lookup_return(t, f, r) ==
    /\ pc' = [pc EXCEPT ![t] = "lookup_ret"]
    /\ lk' = [lk EXCEPT ![t] =
                [f EXCEPT !.active = FALSE, !.stage = "none", !.result = r,
                          !.proc = 0, !.dec_refc_proc = 0,
                          !.x = IF r \in Procs THEN exiting[r] ELSE FALSE]]

\* erts_pid2proc_opt on entry, lines 847-867: the caller looks itself up.
erts_pid2proc_opt(t, c_p, c_p_have_locks, pid, pid_need_locks, fl) ==
    LET f == [NoLookup EXCEPT !.active = TRUE, !.c_p = c_p,
                              !.c_p_have_locks = c_p_have_locks, !.pid = pid,
                              !.pid_need_locks = pid_need_locks, !.flags = fl,
                              !.need_locks = pid_need_locks,
                              !.had = own[t][pid.pix],
                              !.refc0 = refc[pid.pix]]
        need_locks == lookup_need(pid_need_locks, c_p_have_locks)
    IN  /\ IF c_p # 0 /\ common_id(c_p) = pid
           THEN IF "ALLOW_OTHER_X" \notin fl /\ exiting[c_p]
                THEN lookup_return(t, f, 0) /\ refc' = refc
                ELSE IF need_locks = 0
                THEN /\ lookup_return(t, [f EXCEPT !.need_locks = 0], c_p)
                     /\ refc' = IF "INC_REFC" \in fl
                                THEN [refc EXCEPT ![c_p] = @ + 1] ELSE refc
                ELSE /\ pc' = [pc EXCEPT ![t] = "lookup_read"]
                     /\ lk' = [lk EXCEPT ![t] =
                                 [f EXCEPT !.need_locks = need_locks]]
                     /\ refc' = refc
           ELSE /\ pc' = [pc EXCEPT ![t] = "lookup_read"]
                /\ lk' = [lk EXCEPT ![t] = f]
                /\ refc' = refc
        /\ lv' = [lv EXCEPT ![t] = NoFrame]
        /\ UNCHANGED <<flags, queue, pix, uflgs, uaflgs, event, own>>

\* A thread calls erts_pid2proc_opt.  c_p, when given, is in the table (the
\* assertion of line 856), c_p_have_locks are the locks the thread owns on
\* it, and the thread owns no lock of another process.
Lookup(t) ==
    /\ Resting(t) /\ t \in cfg.look /\ calls[t] > 0
    /\ \E c_p \in {0} \cup {p \in cfg.procs : ptab[p] = p}, pid \in Pids,
          R \in SubMasks(cfg.looklocks), fl \in SUBSET P2PFlags :
          /\ pid.pix \in cfg.procs
          /\ \A q \in Procs \ {c_p} : own[t][q] = 0
          /\ erts_pid2proc_opt(t, c_p, IF c_p = 0 THEN 0 ELSE own[t][c_p],
                               pid, R, fl)
    /\ calls' = [calls EXCEPT ![t] = @ - 1]
    /\ sl' = [sl EXCEPT ![t] = NoSafelock]
    /\ iso' = [iso EXCEPT ![t] = NoIso]
    /\ UNCHANGED <<thr_spin_count, ahead, cfg, exiting, ptab>>

\* Lines 869-879: an unmanaged thread delays thread progress, the table
\* slot is read; with no lock left to take the process is returned.
lookup_read(t) ==
    /\ pc[t] = "lookup_read"
    /\ LET f == lk[t]
           proc == ptab[f.pid.pix]
           delay == IF t \in cfg.managed THEN 0 ELSE 1
           g == [f EXCEPT !.delay = lookup_continue(delay)]
       IN  IF ~lookup_match(proc, f.pid)
           THEN lookup_return(t, g, 0) /\ refc' = refc
           ELSE IF f.need_locks = 0
           THEN /\ lookup_return(t, g, proc)
                /\ refc' = IF "INC_REFC" \in f.flags
                           THEN [refc EXCEPT ![proc] = @ + 1] ELSE refc
           ELSE /\ pc' = [pc EXCEPT ![t] = "lookup_trylock"]
                /\ lk' = [lk EXCEPT ![t] =
                            [f EXCEPT !.proc = proc, !.delay = delay]]
                /\ refc' = refc
    /\ UNCHANGED <<flags, queue, pix, uflgs, uaflgs, event, lv, own,
                   thr_spin_count, calls, sl, ahead, cfg, exiting, ptab, iso>>

\* Lines 900-946: the quick trylock of every lock needed.  When a lock is
\* busy a try-only lookup returns ERTS_PROC_LOCK_BUSY; any other lookup
\* pins the process and goes on to proc_safelock.
lookup_trylock(t) ==
    /\ pc[t] = "lookup_trylock"
    /\ LET f == lk[t]
           proc == f.proc
           r == erts_proc_raw_trylock(flags[proc], f.need_locks)
           inc == IF "INC_REFC" \in f.flags THEN 1 ELSE 0
           managed == t \in cfg.managed
       IN  /\ flags' = [flags EXCEPT ![proc] = r.flags]
           /\ IF r.busy = 0
              THEN /\ own' = [own EXCEPT ![t][proc] = BitOr(@, f.need_locks)]
                   /\ refc' = [refc EXCEPT ![proc] = @ + inc]
                   /\ pc' = [pc EXCEPT ![t] = "lookup_final"]
                   /\ lk' = lk
              ELSE IF lookup_try_only(f.flags)
              THEN /\ lookup_return(t, [f EXCEPT !.delay = lookup_continue(@)],
                                    ERTS_PROC_LOCK_BUSY)
                   /\ UNCHANGED <<own, refc>>
              ELSE /\ own' = own
                   /\ refc' = [refc EXCEPT ![proc] =
                                 @ + inc + (IF managed THEN 0 ELSE 1)]
                   /\ pc' = [pc EXCEPT ![t] = "lookup_safelock"]
                   /\ lk' = [lk EXCEPT ![t] =
                               [f EXCEPT !.delay = 0,
                                         !.dec_refc_proc =
                                             IF managed THEN 0 ELSE proc]]
    /\ UNCHANGED <<queue, pix, uflgs, uaflgs, event, lv,
                   thr_spin_count, calls, sl, ahead, cfg, exiting, ptab, iso>>

\* Lines 955-961: proc_safelock(managed, c_p, c_p_have_locks,
\* c_p_have_locks, proc, 0, need_locks).
lookup_safelock(t) ==
    /\ pc[t] = "lookup_safelock"
    /\ LET f == lk[t]
       IN  proc_safelock(t, safelock_enter(t \in cfg.managed,
                                           f.c_p, f.c_p_have_locks,
                                           f.c_p_have_locks,
                                           f.proc, 0, f.need_locks))
    /\ lk' = [lk EXCEPT ![t] = [@ EXCEPT !.stage = "safelock"]]
    /\ UNCHANGED <<thr_spin_count, calls, ahead, cfg, exiting, ptab, iso>>

\* Lines 967-997, reached with the locks taken: thread progress goes on,
\* and the process is looked at again.  It is given up when it is exiting,
\* or, for a caller that allows an exiting process, when the table slot no
\* longer holds it; otherwise it is returned.
lookup_final(t) ==
    /\ lk[t].active /\ ~sl[t].active
    /\ \/ pc[t] = "lookup_final"
       \/ pc[t] = "safelock_ret" /\ lk[t].stage = "safelock"
    /\ LET f == lk[t]
           proc == f.proc
       IN  IF lookup_exiting(f.flags, proc, ptab[f.pid.pix], exiting[proc])
           THEN /\ pc' = [pc EXCEPT ![t] = "lookup_unlock"]
                /\ lk' = [lk EXCEPT ![t] =
                            [f EXCEPT !.delay = lookup_continue(@)]]
                /\ refc' = refc
           ELSE /\ lookup_return(t, [f EXCEPT !.delay = lookup_continue(@)],
                                  proc)
                /\ refc' = IF f.dec_refc_proc # 0
                           THEN [refc EXCEPT ![f.dec_refc_proc] = @ - 1]
                           ELSE refc
    /\ UNCHANGED <<flags, queue, pix, uflgs, uaflgs, event, lv, own,
                   thr_spin_count, calls, sl, ahead, cfg, exiting, ptab, iso>>

\* Line 979: erts_proc_unlock(proc, need_locks) of the process given up.
lookup_unlock(t) ==
    /\ pc[t] = "lookup_unlock"
    /\ erts_proc_unlock(t, lk[t].proc, lk[t].need_locks)
    /\ lk' = [lk EXCEPT ![t] =
                [@ EXCEPT !.stage = "unlock",
                          !.dec_refc_proc =
                              IF "INC_REFC" \in lk[t].flags THEN lk[t].proc
                              ELSE @]]
    /\ UNCHANGED <<thr_spin_count, calls, sl, refc, ahead, cfg, exiting,
                   ptab, iso>>

\* Lines 981-997 after the unlock: the reference taken is given back and
\* NULL is returned.
lookup_giveup(t) ==
    /\ lk[t].active /\ lk[t].stage = "unlock" /\ pc[t] = "unlock_ret"
    /\ lookup_return(t, lk[t], 0)
    /\ refc' = IF lk[t].dec_refc_proc # 0
               THEN [refc EXCEPT ![lk[t].dec_refc_proc] = @ - 1]
               ELSE refc
    /\ UNCHANGED <<flags, queue, pix, uflgs, uaflgs, event, lv, own,
                   thr_spin_count, calls, sl, ahead, cfg, exiting, ptab, iso>>

\* A process starts to exit, and a process is taken out of the table; the
\* table belongs to the rest of the runtime, and nothing in
\* erts_pid2proc_opt relies on the order of the two.
proc_exit(p) ==
    /\ cfg.exits /\ p \in cfg.procs /\ ~exiting[p]
    /\ exiting' = [exiting EXCEPT ![p] = TRUE]
    /\ UNCHANGED <<flags, queue, pix, uflgs, uaflgs, event, pc, lv, own,
                   thr_spin_count, calls, sl, refc, ahead, cfg, lk, ptab, iso>>

ptab_delete(p) ==
    /\ cfg.exits /\ p \in cfg.procs /\ ptab[p] = p
    /\ ptab' = [ptab EXCEPT ![p] = 0]
    /\ UNCHANGED <<flags, queue, pix, uflgs, uaflgs, event, pc, lv, own,
                   thr_spin_count, calls, sl, refc, ahead, cfg, lk, exiting,
                   iso>>

\* ------------------------------------------------------------ specifications
Config(threads, procs, locks, order, held) ==
    [threads |-> threads, procs |-> procs, locks |-> locks, order |-> order,
     held |-> [p \in Procs |-> held], safe |-> threads, managed |-> {1},
     live |-> FALSE,
     excess |-> FALSE, look |-> {}, looklocks |-> 0, exits |-> FALSE,
     iso |-> {}, solo |-> {}]

\* The locks 0..MaxUsedBit are the ones the callers lock and unlock.
UsedLocks == 2 ^ (MaxUsedBit + 1) - 1

Init ==
    \E n \in 0 .. MaxSpin :
        InitWith(Config(Threads, {1}, UsedLocks, "proc", ERTS_PROC_LOCKS_ALL),
                 {n}, MaxCalls)

Next ==
    \E t \in Threads :
        \/ Lock(t)
        \/ Unlock(t)
        \/ erts_proc_lock_failed(t)
        \/ wait_for_locks(t)
        \/ try_aquire(t)
        \/ try_band(t)
        \/ tse_reset(t)
        \/ tse_read(t)
        \/ tse_wait(t)
        \/ tse_wait_spurious(t)
        \/ erts_proc_unlock_cas(t)
        \/ erts_proc_unlock_failed(t)
        \/ transfer_locks(t)
        \/ wake_flag(t)
        \/ wake_set(t)

Spec == Init /\ [][Next]_vars

\* Two threads and two processes; both threads call erts_proc_safelock as
\* well, on lock 0, and the callers keep either lock order.
InitSafe ==
    \E order \in {"proc", "global"} :
        InitWith(Config({1, 2}, Procs, LockBit(0), order, 0), {0}, MaxCalls)

NextSafe ==
    \/ Next
    \/ \E t \in Threads : Safelock(t) \/ safelock_continue(t)

SpecSafe == InitSafe /\ [][NextSafe]_vars

\* Two threads and two processes; thread 1 calls erts_proc_safelock on the
\* locks 0..MaxUsedBit while thread 2 locks and unlocks them.
InitSafeMix ==
    InitWith([Config({1, 2}, Procs, UsedLocks, "global", 0) EXCEPT !.safe = {1}],
             {0}, MaxCalls)

SpecSafeMix == InitSafeMix /\ [][NextSafe]_vars

\* One thread, managed or not, and two processes: the thread locks, unlocks
\* and calls erts_proc_safelock on every lock, also with need masks that
\* leave out locks it owns.
SeqCalls == 1

InitSeq ==
    \E h \in [Procs -> SubMasks(ERTS_PROC_LOCKS_ALL)], m \in SUBSET {1} :
        InitWith([Config({1}, Procs, ERTS_PROC_LOCKS_ALL, "proc", 0)
                     EXCEPT !.excess = TRUE, !.held = h, !.managed = m],
                 {0}, SeqCalls)

NextSeq ==
    \E t \in Threads :
        \/ Lock(t)
        \/ Unlock(t)
        \/ erts_proc_unlock_cas(t)
        \/ Safelock(t)
        \/ safelock_continue(t)

SpecSeq == InitSeq /\ [][NextSeq]_vars

\* Two threads and two processes: thread 1, unmanaged or managed and
\* holding lock 1 of process 1 or nothing, calls erts_pid2proc_opt for the
\* locks 0..MaxUsedBit while thread 2 locks and unlocks lock 0, and the
\* processes exit.
LookCalls == 1

InitLook ==
    \E m \in SUBSET {1}, h \in {0, LockBit(1)} :
        InitWith([Config({1, 2}, Procs, LockBit(0), "global", 0)
                     EXCEPT !.safe = {}, !.look = {1}, !.exits = TRUE,
                            !.looklocks = UsedLocks,
                            !.managed = m, !.live = TRUE,
                            !.held = [p \in Procs |-> IF p = 1 THEN h ELSE 0]],
                 {0}, LookCalls)

NextLook ==
    \/ \E t \in Threads :
          \/ Lock(t)
          \/ Unlock(t)
          \/ erts_proc_lock_failed(t)
          \/ wait_for_locks(t)
          \/ try_aquire(t)
          \/ try_band(t)
          \/ tse_reset(t)
          \/ tse_read(t)
          \/ tse_wait(t)
          \/ tse_wait_spurious(t)
          \/ erts_proc_unlock_cas(t)
          \/ erts_proc_unlock_failed(t)
          \/ transfer_locks(t)
          \/ wake_flag(t)
          \/ wake_set(t)
          \/ safelock_continue(t)
          \/ Lookup(t)
          \/ lookup_read(t)
          \/ lookup_trylock(t)
          \/ lookup_safelock(t)
          \/ lookup_final(t)
          \/ lookup_unlock(t)
          \/ lookup_giveup(t)
    \/ \E p \in Procs : proc_exit(p) \/ ptab_delete(p)

SpecLook == InitLook /\ [][NextLook]_vars

\* Two threads and one process, every lock held by thread 1 or none: the
\* threads lock and unlock the locks 0..MaxUsedBit, thread 1 calls
\* erts_proc_safelock as well and may measure a call.  While it runs alone,
\* and once its measured call has returned, thread 2 takes no step.
InitIso ==
    \E h \in {0, ERTS_PROC_LOCKS_ALL} :
        InitWith([Config({1, 2}, {1}, UsedLocks, "proc", h)
                     EXCEPT !.iso = {1}, !.safe = {1}],
                 {0}, MaxCalls)

NextIso ==
    \E t \in Threads :
        /\ \A u \in Threads \ {t} : ~Measured(u)
        /\ \/ Lock(t)
           \/ Unlock(t)
           \/ erts_proc_lock_failed(t)
           \/ wait_for_locks(t)
           \/ try_aquire(t)
           \/ try_band(t)
           \/ tse_reset(t)
           \/ tse_read(t)
           \/ tse_wait(t)
           \/ tse_wait_spurious(t)
           \/ erts_proc_unlock_cas(t)
           \/ erts_proc_unlock_failed(t)
           \/ transfer_locks(t)
           \/ wake_flag(t)
           \/ wake_set(t)
           \/ Safelock(t)
           \/ safelock_continue(t)

SpecIso == InitIso /\ [][NextIso]_vars

\* Three threads and one process, as in Spec; threads 1 and 2 may record an
\* erts_proc_unlock call and run alone up to its return.
InitSolo ==
    \E n \in 0 .. MaxSpin :
        InitWith([Config(Threads, {1}, UsedLocks, "proc", ERTS_PROC_LOCKS_ALL)
                     EXCEPT !.solo = {1, 2}],
                 {n}, MaxCalls)

NextSolo ==
    \E t \in Threads :
        /\ \A u \in Threads \ {t} : ~Measured(u)
        /\ \/ Lock(t)
           \/ Unlock(t)
           \/ erts_proc_lock_failed(t)
           \/ wait_for_locks(t)
           \/ try_aquire(t)
           \/ try_band(t)
           \/ tse_reset(t)
           \/ tse_read(t)
           \/ tse_wait(t)
           \/ tse_wait_spurious(t)
           \/ erts_proc_unlock_cas(t)
           \/ erts_proc_unlock_failed(t)
           \/ transfer_locks(t)
           \/ wake_flag(t)
           \/ wake_set(t)

SpecSolo == InitSolo /\ [][NextSolo]_vars

\* in_order_locks by itself: thread 1 is about to apply it to a flags word
\* of the locks 0..OrderMaxBit, wait flags included, and a mask of these
\* locks; the frame holds the arguments in olflgs and need_locks and
\* receives the result in got_locks.
InitOrder ==
    /\ cfg = Config({}, {}, 0, "proc", 0)
    /\ calls = [t \in Threads |-> 0]
    /\ sl = [t \in Threads |-> NoSafelock]
    /\ refc = [p \in Procs |-> 1]
    /\ ahead = [t \in Threads |-> {}]
    /\ flags = [p \in Procs |-> 0]
    /\ queue = [p \in Procs |-> [n \in LockNos |-> <<>>]]
    /\ pix = [i \in {PIX(p) : p \in Procs} |-> 0]
    /\ uflgs = [t \in Threads |-> 0]
    /\ uaflgs = [t \in Threads |-> 0]
    /\ event = [t \in Threads |-> FALSE]
    /\ pc = [t \in Threads |-> IF t = 1 THEN "in_order_locks" ELSE "idle"]
    /\ \E in_use \in 0 .. 2 ^ (2 * (OrderMaxBit + 1)) - 1,
          need_locks \in 0 .. 2 ^ (OrderMaxBit + 1) - 1 :
          lv = [t \in Threads |->
                   IF t = 1
                   THEN [NoFrame EXCEPT !.olflgs = in_use,
                                        !.need_locks = need_locks]
                   ELSE NoFrame]
    /\ own = [t \in Threads |-> [p \in Procs |-> 0]]
    /\ thr_spin_count = [t \in Threads |-> 0]
    /\ lk = [t \in Threads |-> NoLookup]
    /\ exiting = [p \in Procs |-> FALSE]
    /\ ptab = [p \in Procs |-> p]
    /\ iso = [t \in Threads |-> NoIso]

\* Lines 370-382: the call returns in_order_locks(in_use, need_locks).
in_order_locks_call(t) ==
    /\ pc[t] = "in_order_locks"
    /\ pc' = [pc EXCEPT ![t] = "in_order_ret"]
    /\ lv' = [lv EXCEPT ![t] =
                [@ EXCEPT !.got_locks =
                    in_order_locks(lv[t].olflgs, lv[t].need_locks)]]
    /\ UNCHANGED <<flags, queue, pix, uflgs, uaflgs, event, own, ahead, env>>

NextOrder == \E t \in Threads : in_order_locks_call(t)

SpecOrder == InitOrder /\ [][NextOrder]_vars

\* Fair scheduling: a thread inside a call goes on, and a thread that holds
\* locks unlocks them.  Unlock calls are not counted here.
InitLive ==
    \E n \in 0 .. MaxSpin :
        InitWith([Config({1, 2}, {1}, UsedLocks, "proc", ERTS_PROC_LOCKS_ALL)
                     EXCEPT !.live = TRUE],
                 {n}, MaxCalls)

Step(t) ==
    \/ erts_proc_lock_failed(t)
    \/ wait_for_locks(t)
    \/ try_aquire(t)
    \/ try_band(t)
    \/ tse_reset(t)
    \/ tse_read(t)
    \/ tse_wait(t)
    \/ erts_proc_unlock_cas(t)
    \/ erts_proc_unlock_failed(t)
    \/ transfer_locks(t)
    \/ wake_flag(t)
    \/ wake_set(t)

SpecLive ==
    /\ InitLive
    /\ [][Next]_vars
    /\ \A t \in Threads : WF_vars(Step(t)) /\ WF_vars(Unlock(t))

\* ------------------------------------------------------------ properties
TypeOK ==
    /\ \A p \in Procs : flags[p] \in 0 .. 2 ^ (2 * ERTS_PROC_LOCK_WAITER_SHIFT) - 1
    /\ \A t \in Threads : pc[t] # "crash"
    /\ \A t \in Threads, p \in Procs :
          BitAnd(own[t][p], LockFlags(flags[p])) = own[t][p]

\* Thread t is inside erts_proc_lock(lv[t].p, lv[t].locks), or has returned
\* from it and made no other call since.
InLockCall(t) ==
    /\ pc[t] \in {"lock_failed", "wait_for_locks", "try_aquire", "try_band",
                  "tse_reset", "tse_read", "tse_wait", "lock_ret"}
    /\ lv[t].ctx # "transfer_locks"

\* Thread t is in the wait loop of wait_for_locks.
Parked(t) == pc[t] \in {"tse_reset", "tse_read", "tse_wait"}

\* C1: mutual exclusion.  In every reachable state no lock of a process is
\* owned by two threads.
MutualExclusion ==
    \A p \in Procs : \A t, u \in Threads :
        t # u => BitAnd(own[t][p], own[u][p]) = 0

\* A thread that parked has returned owning a lock that was handed to it.
C1_Witness ==
    \E t \in Threads :
        /\ pc[t] = "lock_ret" /\ lv[t].path = "park"
        /\ BitAnd(own[t][lv[t].p], lv[t].locks) = lv[t].locks
        /\ \E u \in Threads \ {t} : own[u][lv[t].p] # 0

\* Thread t waits in a queue for a lock that thread u owns.
WaitsFor(t, u) ==
    \E p \in Procs, n \in LockNos :
        t \in Elems(queue[p][n]) /\ Has(own[u][p], n)

\* Every thread of S waits for a lock that a thread of S owns.
Deadlocked(S) == S # {} /\ \A t \in S : \E u \in S : WaitsFor(t, u)

NoLostWakeup ==
    \A t \in Threads : Parked(t) ~> (pc[t] = "lock_ret")

\* A thread is queued with its wait flag set while the owner, about to
\* unlock, has read the flags without that wait flag.
C3_Witness ==
    \E t \in Threads : \E u \in Threads \ {t} :
        /\ pc[u] = "unlock_cas" /\ Parked(t)
        /\ \E n \in Bits(lv[u].locks) :
              /\ t \in Elems(queue[lv[u].p][n])
              /\ Has(flags[lv[u].p], n + ERTS_PROC_LOCK_WAITER_SHIFT)
              /\ ~Has(lv[u].olflgs, n + ERTS_PROC_LOCK_WAITER_SHIFT)

\* C4: postcondition of erts_proc_lock.  When the call has returned, the
\* thread owns the locks it asked for and the ones it owned before, and the
\* lock flags of the locks asked for are set.
LockPostcondition ==
    \A t \in Threads :
        pc[t] = "lock_ret" =>
            /\ own[t][lv[t].p] = BitOr(lv[t].had, lv[t].locks)
            /\ BitAnd(flags[lv[t].p], lv[t].locks) = lv[t].locks

\* A call for two locks has returned after the thread parked.
C4_Witness ==
    \E t \in Threads :
        /\ pc[t] = "lock_ret" /\ lv[t].path = "park"
        /\ Cardinality(Bits(lv[t].locks)) = 2

\* A thread is woken only when every thread queued before it has been.
WokenInOrder ==
    \A t \in Threads : ahead[t] # {} => uaflgs[t] = 1

\* A lock with waiters goes to a queued thread, and to none that has a
\* thread queued before it still in the queue.
OwnerInOrder ==
    \A p \in Procs, n \in LockNos, t \in Threads :
        (queue[p][n] # <<>> /\ ~Has(own[t][p], n) /\ Has(own'[t][p], n)) =>
            /\ t \in Elems(queue[p][n])
            /\ ahead[t] \cap Elems(queue[p][n]) = {}

\* C5: fifo order per lock.  Of two threads queued on the same lock the
\* one queued first is woken no later than the other, and while a thread is
\* queued on a lock no thread that was not queued before it becomes owner
\* of that lock.
FifoPerLock == []WokenInOrder /\ [][OwnerInOrder]_vars

\* A queued thread was handed the lock while a thread queued behind it
\* waits on.
C5_Witness ==
    \E p \in Procs, n \in LockNos, t \in Threads, u \in Threads :
        /\ t \in ahead[u] /\ u \in Elems(queue[p][n])
        /\ Has(own[t][p], n) /\ Parked(t)

\* C6: transfer continuity.  While the wait flag of a lock is set its lock
\* flag stays set, and the lock goes to no thread but the first of its
\* queue.
TransferContinuity ==
    [][\A p \in Procs, n \in LockNos :
          Has(flags[p], n + ERTS_PROC_LOCK_WAITER_SHIFT) =>
              /\ Has(flags[p], n) /\ Has(flags'[p], n)
              /\ \A t \in Threads :
                    (~Has(own[t][p], n) /\ Has(own'[t][p], n)) =>
                        (queue[p][n] # <<>> /\ t = Head(queue[p][n]))]_vars

\* In the middle of transfer_locks: a waiter owns the lock handed to it,
\* and the lock flag is set.
C6_Witness ==
    \E t \in Threads : \E w \in Threads \ {t}, n \in LockNos :
        /\ pc[t] = "transfer_locks" /\ lv[t].transferred >= 1
        /\ Has(lv[t].locks, n) /\ Has(own[w][lv[t].p], n)
        /\ Has(flags[lv[t].p], n) /\ Parked(w)

\* C7: queue and wait flag agree.  When the pix lock of a process is free,
\* the queue of a lock is non-empty iff its wait flag is set.
QueueWaiterParity ==
    \A p \in Procs :
        pix[PIX(p)] = 0 =>
            \A n \in LockNos :
                (queue[p][n] # <<>>) <=>
                    Has(flags[p], n + ERTS_PROC_LOCK_WAITER_SHIFT)

\* The pix lock is free and a thread is queued.
C7_Witness ==
    \E p \in Procs, n \in LockNos :
        /\ pix[PIX(p)] = 0 /\ queue[p][n] # <<>>
        /\ Has(flags[p], n + ERTS_PROC_LOCK_WAITER_SHIFT)

\* C8: order within a process.  During erts_proc_lock(p, M) the thread
\* owns no lock of M while it does not own a lower lock of M.
AscendingOrder ==
    \A t \in Threads :
        InLockCall(t) =>
            LET got == BitAnd(own[t][lv[t].p], lv[t].locks)
            IN  \A b \in Bits(got), c \in Bits(lv[t].locks) :
                    c < b => Has(got, c)

\* A thread inside a call for two locks owns the lower and waits for the
\* higher.
C8_Witness ==
    \E t \in Threads :
        /\ Parked(t) /\ Cardinality(Bits(lv[t].locks)) = 2
        /\ Cardinality(Bits(BitAnd(own[t][lv[t].p], lv[t].locks))) = 1

\* The arguments of the erts_proc_safelock call of t, by process identifier.
LowProc(t) == IF sl[t].a_proc < sl[t].b_proc THEN sl[t].a_proc ELSE sl[t].b_proc
HighProc(t) == IF sl[t].a_proc < sl[t].b_proc THEN sl[t].b_proc ELSE sl[t].a_proc
LowNeed(t) == IF sl[t].a_proc < sl[t].b_proc THEN sl[t].a_need ELSE sl[t].b_need
HighNeed(t) == IF sl[t].a_proc < sl[t].b_proc THEN sl[t].b_need ELSE sl[t].a_need
TwoProcs(t) ==
    sl[t].active /\ sl[t].a_proc # 0 /\ sl[t].a_proc # sl[t].b_proc

\* C9: order between processes.  When erts_proc_safelock on two processes
\* locks a lock on the process with the larger identifier, and the lock is
\* needed on both, the thread owns it on the process with the smaller one.
CrossActorOrder ==
    \A t \in Threads :
        (TwoProcs(t) /\ InLockCall(t) /\ lv[t].p = HighProc(t)) =>
            \A b \in Bits(lv[t].locks) :
                (Has(LowNeed(t), b) /\ Has(HighNeed(t), b)) =>
                    Has(own[t][LowProc(t)], b)

\* erts_proc_safelock, given the process with the larger identifier first,
\* waits for a lock on it that it has locked on the other.
C9_Witness ==
    \E t \in Threads :
        /\ TwoProcs(t) /\ sl[t].a_proc > sl[t].b_proc
        /\ Parked(t) /\ lv[t].p = HighProc(t)
        /\ BitAnd(lv[t].locks, LowNeed(t)) # 0

\* C10: postcondition of erts_proc_safelock.  When the locks held are among
\* the locks needed, the call returns with the thread owning the locks
\* needed and no others on the processes passed.
SafelockPostcondition ==
    \A t \in Threads :
        LET s == sl[t]
        IN  (/\ pc[t] = "safelock_ret"
             /\ BitAnd(s.a_have, s.a_need) = s.a_have
             /\ BitAnd(s.b_have, s.b_need) = s.b_have) =>
                IF s.a_proc = 0 THEN own[t][s.b_proc] = s.b_need
                ELSE IF s.a_proc = s.b_proc
                THEN own[t][s.a_proc] = BitOr(s.a_need, s.b_need)
                ELSE /\ own[t][s.a_proc] = s.a_need
                     /\ own[t][s.b_proc] = s.b_need

\* A call on two processes has returned that had a lock to unlock and
\* locks to take on both.
C10_Witness ==
    \E t \in Threads :
        LET s == sl[t]
        IN  /\ pc[t] = "safelock_ret"
            /\ s.a_proc # 0 /\ s.a_proc # s.b_proc
            /\ s.a_have # 0 \/ s.b_have # 0
            /\ s.a_need # s.a_have /\ s.b_need # s.b_have
            /\ Cardinality(Bits(s.a_need)) = 2

\* C11 as stated: erts_proc_safelock returns with the thread owning the
\* locks needed and no others, whatever locks it owned at the call.
SafelockExact ==
    \A t \in Threads :
        LET s == sl[t]
        IN  pc[t] = "safelock_ret" =>
                IF s.a_proc = 0 THEN own[t][s.b_proc] = s.b_need
                ELSE IF s.a_proc = s.b_proc
                THEN own[t][s.a_proc] = BitOr(s.a_need, s.b_need)
                ELSE /\ own[t][s.a_proc] = s.a_need
                     /\ own[t][s.b_proc] = s.b_need

\* C11: erts_proc_safelock releases no lock for good.  It returns with the
\* thread owning the locks needed and the locks it owned at the call, those
\* outside the need masks too.
SafelockKeepsExcess ==
    \A t \in Threads :
        LET s == sl[t]
        IN  pc[t] = "safelock_ret" =>
                IF s.a_proc = 0
                THEN own[t][s.b_proc] = BitOr(s.b_need, s.b_have)
                ELSE IF s.a_proc = s.b_proc
                THEN own[t][s.a_proc] =
                         BitOr(BitOr(s.a_need, s.b_need), s.a_have)
                ELSE /\ own[t][s.a_proc] = BitOr(s.a_need, s.a_have)
                     /\ own[t][s.b_proc] = BitOr(s.b_need, s.b_have)

\* Scenario S4 has returned: A has the larger identifier, have_A = {},
\* need_A = {0,1}, have_B = {2}, need_B = {0}; lock 2 of B is still owned.
C11_Witness ==
    \E t \in Threads :
        /\ pc[t] = "safelock_ret"
        /\ sl[t].a_proc = 2 /\ sl[t].a_have = 0 /\ sl[t].a_need = 3
        /\ sl[t].b_proc = 1 /\ sl[t].b_have = 4 /\ sl[t].b_need = 1
        /\ own[t][1] = 5 /\ own[t][2] = 3

\* C16: uncontended unlock.  When erts_proc_unlock(p, M) takes effect and
\* no lock of M has its wait flag set, the lock flags of M are cleared and
\* no other flag, no queue is changed, no thread is woken and the pix lock
\* is not taken: the call returns from the fast path.
UncontendedUnlock ==
    [][\A t \in Threads :
          LET p == lv[t].p
              M == lv[t].locks
          IN  (/\ pc[t] = "unlock_cas" /\ pc'[t] # "unlock_cas"
               /\ BitAnd(WaitFlags(flags[p]), M) = 0) =>
                  /\ pc'[t] = "unlock_ret"
                  /\ flags' = [flags EXCEPT ![p] = BitClear(@, M)]
                  /\ BitAnd(flags[p], M) = M
                  /\ own' = [own EXCEPT ![t][p] = BitClear(@, M)]
                  /\ UNCHANGED <<queue, pix, uflgs, uaflgs, event>>]_vars

\* Scenario S1 on the locks of the model: every lock was held, the owner
\* has unlocked {0,1}; lock 2 alone is held and the queues are empty.
C16_Witness ==
    \E t \in Threads :
        /\ pc[t] = "unlock_ret" /\ lv[t].path = "fast" /\ lv[t].locks = 3
        /\ lv[t].had = ERTS_PROC_LOCKS_ALL
        /\ flags[lv[t].p] = BitClear(ERTS_PROC_LOCKS_ALL, 3)
        /\ \A n \in LockNos : queue[lv[t].p][n] = <<>>
        /\ \A u \in Threads : uaflgs[u] = 0 /\ ~event[u]

\* No call has been made yet: the state erts_proc_lock_init left.
Fresh == \A t \in Threads : pc[t] = "idle" /\ calls[t] = MaxCalls

\* C17: initial state.  After erts_proc_lock_init every lock flag is set,
\* every wait flag is clear, the queues are empty and the creating thread
\* (thread 1) owns every lock.  The creator stops owning a lock only by
\* unlocking it, and another thread becomes the owner of a lock only when
\* the creator does not own it, or in the creator's unlocking transfer.
InitialOwnership ==
    /\ [](Fresh =>
            \A p \in Procs :
                /\ LockFlags(flags[p]) = ERTS_PROC_LOCKS_ALL
                /\ WaitFlags(flags[p]) = 0
                /\ \A n \in LockNos : queue[p][n] = <<>>
                /\ own[1][p] = ERTS_PROC_LOCKS_ALL
                /\ \A t \in Threads \ {1} : own[t][p] = 0)
    /\ [][\A p \in Procs, n \in LockNos :
            /\ (Has(own[1][p], n) /\ ~Has(own'[1][p], n)) =>
                  /\ pc[1] \in {"unlock_cas", "transfer_locks"}
                  /\ lv[1].p = p /\ Has(lv[1].locks, n)
            /\ \A t \in Threads \ {1} :
                  (~Has(own[t][p], n) /\ Has(own'[t][p], n)) =>
                      ~Has(own'[1][p], n)]_vars

\* The creator has unlocked lock 0 and keeps lock 1; a second thread owns
\* lock 0 and a third is parked for lock 1, which the creator never unlocked.
C17_Witness ==
    \E t \in Threads \ {1} : \E u \in Threads \ {1, t} :
        /\ own[1][1] = BitClear(ERTS_PROC_LOCKS_ALL, LockBit(0))
        /\ pc[t] = "lock_ret" /\ own[t][1] = LockBit(0)
        /\ Parked(u) /\ lv[u].locks = LockBit(1) /\ own[u][1] = 0

\* C18: waiter cleanup.  When wait_for_locks returns its waiter object to
\* the pool (line 462), after try_aquire got every lock or after the thread
\* was woken, the object needs no lock (uflgs = 0) and is in no queue.
WaiterCleanup ==
    \A t \in Threads :
        (pc[t] = "lock_ret" /\ lv[t].path \in {"try", "park"}) =>
            /\ uflgs[t] = 0
            /\ \A p \in Procs, n \in LockNos : t \notin Elems(queue[p][n])

\* A woken thread has returned while another waiter is still queued for
\* the lock it got.
C18_Witness ==
    \E t \in Threads : \E n \in LockNos :
        /\ pc[t] = "lock_ret" /\ lv[t].path = "park"
        /\ Has(lv[t].locks, n) /\ Has(own[t][lv[t].p], n)
        /\ queue[lv[t].p][n] # <<>>

\* Thread t has returned from erts_pid2proc_opt; lk[t] keeps the call.
Returned(t) == pc[t] = "lookup_ret" /\ ~lk[t].active /\ lk[t].pid.pix # 0

\* The lookup of t asked for the caller's own process.
LookupSelf(t) == lk[t].c_p # 0 /\ common_id(lk[t].c_p) = lk[t].pid

\* C12 as stated: for every R, R = 0 included, and also when the target is
\* the caller, a lookup without allow_other_exit returns no process that is
\* exiting when the lookup looks at it last, and when it returns not-found
\* the caller owns no lock of the target it did not own before.
ExitingNotFound ==
    \A t \in Threads :
        (Returned(t) /\ "ALLOW_OTHER_X" \notin lk[t].flags) =>
            /\ lk[t].result \in Procs => ~lk[t].x
            /\ lk[t].result = 0 =>
                  BitAnd(own[t][lk[t].pid.pix], lk[t].had)
                      = own[t][lk[t].pid.pix]

\* C12, amended: the same for every lookup that has a lock to take
\* (need_locks # 0 after the caller's own locks are taken off) and for
\* every lookup of the caller itself.
ExitingNotFoundLocked ==
    \A t \in Threads :
        (/\ Returned(t) /\ "ALLOW_OTHER_X" \notin lk[t].flags
         /\ (lk[t].need_locks # 0 \/ LookupSelf(t))) =>
            /\ lk[t].result \in Procs => ~lk[t].x
            /\ lk[t].result = 0 =>
                  BitAnd(own[t][lk[t].pid.pix], lk[t].had)
                      = own[t][lk[t].pid.pix]

\* The lookup locked a process that is in the table, found it exiting, and
\* returned not-found after unlocking what it had locked.
C12_Witness ==
    \E t \in Threads :
        /\ Returned(t) /\ "ALLOW_OTHER_X" \notin lk[t].flags
        /\ lk[t].result = 0 /\ lk[t].need_locks # 0
        /\ ptab[lk[t].pid.pix] = lk[t].pid.pix /\ lk[t].pid.serial = 0
        /\ exiting[lk[t].pid.pix]
        /\ lv[t].p = lk[t].pid.pix /\ lv[t].locks = lk[t].need_locks
        /\ own[t][lk[t].pid.pix] = lk[t].had

\* C13: lookup success means locked.  When erts_pid2proc_opt returns a
\* process, its identifier is the pid asked for and the caller owns every
\* lock of pid_need_locks on it.
LookupLocked ==
    \A t \in Threads :
        (Returned(t) /\ lk[t].result \in Procs) =>
            /\ common_id(lk[t].result) = lk[t].pid
            /\ BitAnd(own[t][lk[t].result], lk[t].pid_need_locks)
                   = lk[t].pid_need_locks

\* The caller looked itself up holding lock 1 and asking for locks 0 and 1;
\* lock 0 was busy, and proc_safelock has taken it.
C13_Witness ==
    \E t \in Threads :
        /\ Returned(t) /\ LookupSelf(t) /\ lk[t].result = lk[t].c_p
        /\ lk[t].had = LockBit(1) /\ lk[t].pid_need_locks = 3
        /\ sl[t].b_proc = lk[t].result /\ sl[t].b_need = LockBit(0)
        /\ own[t][lk[t].result] = 3

\* Thread t takes the try-lock step of a try-only lookup while another
\* thread owns a lock of pid_need_locks on the process found.
TryOnlyContended(t) ==
    /\ pc[t] = "lookup_trylock" /\ pc'[t] # "lookup_trylock"
    /\ "TRY_LOCK" \in lk[t].flags
    /\ \E u \in Threads \ {t} :
          BitAnd(own[u][lk[t].proc], lk[t].pid_need_locks) # 0

\* C14 as stated: a try-only lookup that finds a lock of pid_need_locks
\* owned by another thread returns ERTS_PROC_LOCK_BUSY at once, takes no pix
\* lock, changes no flag, queue or waiter object, and the caller owns no
\* lock of pid_need_locks on the target afterwards.
TryOnlyBusyOwnsNone ==
    [][\A t \in Threads :
          TryOnlyContended(t) =>
              /\ pc'[t] = "lookup_ret"
              /\ lk'[t].result = ERTS_PROC_LOCK_BUSY
              /\ UNCHANGED <<flags, queue, pix, uflgs, uaflgs, event>>
              /\ BitAnd(own'[t][lk[t].proc], lk[t].pid_need_locks) = 0]_vars

\* C14, amended: the same, with the caller owning afterwards the locks of
\* the target it owned before the call and no other.
TryOnlyBusy ==
    [][\A t \in Threads :
          TryOnlyContended(t) =>
              /\ pc'[t] = "lookup_ret"
              /\ lk'[t].result = ERTS_PROC_LOCK_BUSY
              /\ UNCHANGED <<flags, queue, pix, uflgs, uaflgs, event>>
              /\ own'[t][lk[t].proc] = lk[t].had]_vars

\* A try-only lookup of the caller itself, which holds lock 1 and asks for
\* locks 0 and 1, returned busy: another thread owns lock 0.
C14_Witness ==
    \E t \in Threads : \E u \in Threads \ {t} :
        /\ Returned(t) /\ lk[t].result = ERTS_PROC_LOCK_BUSY
        /\ "TRY_LOCK" \in lk[t].flags /\ LookupSelf(t)
        /\ lk[t].had = LockBit(1) /\ lk[t].pid_need_locks = 3
        /\ own[u][lk[t].pid.pix] = LockBit(0)
        /\ own[t][lk[t].pid.pix] = LockBit(1)

\* C15: lookup miss.  When the table slot read for the pid is empty or
\* holds a process with another identifier, erts_pid2proc_opt returns NULL,
\* the flags, the queues and the reference count of every process are as
\* they were, and the delay of thread progress it began is ended.
LookupMiss ==
    [][\A t \in Threads :
          (/\ pc[t] = "lookup_read" /\ pc'[t] # "lookup_read"
           /\ (ptab[lk[t].pid.pix] = 0
               \/ common_id(ptab[lk[t].pid.pix]) # lk[t].pid)) =>
              /\ pc'[t] = "lookup_ret"
              /\ lk'[t].result = 0
              /\ lk'[t].delay = 0
              /\ UNCHANGED <<flags, queue, refc, own, pix, uflgs, uaflgs>>]_vars

\* An unmanaged thread asked, with a reference wanted, for a pid whose slot
\* holds a process with another identifier, and for one whose slot is empty.
C15_Witness ==
    \E t \in Threads \ cfg.managed :
        /\ Returned(t) /\ lk[t].result = 0 /\ "INC_REFC" \in lk[t].flags
        /\ lk[t].need_locks # 0 /\ lk[t].delay = 0
        /\ \/ lk[t].pid.serial = 1 /\ ptab[lk[t].pid.pix] = lk[t].pid.pix
           \/ lk[t].pid.serial = 0 /\ ptab[lk[t].pid.pix] = 0
                                   /\ lv[t] = NoFrame
        /\ \A p \in Procs : refc[p] = 1

\* C19 as stated: erts_proc_lock(p, M) followed by erts_proc_unlock(p, M),
\* M disjoint from the locks owned, leaves the lock flags of p as they were
\* before the lock.  It is stated for the lock flags of M, which no other
\* thread can lock or unlock for itself while the caller owns them.
RoundTrip ==
    \A t \in Threads :
        (iso[t].kind = "pair" /\ pc[t] = "unlock_ret") =>
            BitAnd(LockFlags(flags[iso[t].p]), iso[t].locks)
                = BitAnd(LockFlags(iso[t].f0), iso[t].locks)

\* C19, amended: the same when no other thread takes a step between the
\* call of erts_proc_lock and the return of erts_proc_unlock.
RoundTripAlone ==
    \A t \in Threads :
        (iso[t].kind = "pair" /\ iso[t].alone /\ pc[t] = "unlock_ret") =>
            LockFlags(flags[iso[t].p]) = LockFlags(iso[t].f0)

\* Thread 1, alone, has locked and unlocked lock 1 while thread 2 holds
\* lock 0.
C19_Witness ==
    /\ iso[1].kind = "pair" /\ iso[1].alone /\ pc[1] = "unlock_ret"
    /\ iso[1].locks = LockBit(1) /\ own[1][1] = 0
    /\ own[2][1] = LockBit(0) /\ flags[1] = LockBit(0)

\* Thread t, running alone, has called erts_proc_safelock on one process
\* with need = have + M, M disjoint from have and free at the call, so
\* that erts_proc_lock(p, M) from the same state returns at once.
SafelockAlone(t) ==
    /\ iso[t].kind = "safelock" /\ iso[t].alone
    /\ BitAnd(LockFlags(iso[t].f0), iso[t].locks) = 0

\* The call of t has ended as erts_proc_lock(p, M) ends from the state of
\* the call, or can still end so: t is not waiting to be woken.
EndsAsLock(t) ==
    /\ ~(Parked(t) /\ uaflgs[t] # 0)
    /\ pc[t] = "safelock_ret" =>
          /\ own[t][iso[t].p] = BitOr(iso[t].have, iso[t].locks)
          /\ flags[iso[t].p] =
                 erts_proc_raw_trylock(iso[t].f0, iso[t].locks).flags
          /\ queue[iso[t].p] = iso[t].q0

\* C20 as stated: for every held set H and every M disjoint from H,
\* safelock(actor, H, H + M) ends in the state lock(actor, M) ends in from
\* the same state: the caller owns H + M, flags and queues are the same.
SafelockAsLock ==
    \A t \in Threads : SafelockAlone(t) => EndsAsLock(t)

\* C20, amended: the same when no thread is waiting for a lock of H at the
\* call.
SafelockAsLockNoWaiter ==
    \A t \in Threads :
        (SafelockAlone(t) /\ BitAnd(WaitFlags(iso[t].f0), iso[t].have) = 0)
            => EndsAsLock(t)

\* Thread 1 held locks 1 and 2 and called safelock for lock 0 as well: it
\* has returned owning all three, having unlocked and locked 1 and 2 again.
C20_Witness ==
    /\ SafelockAlone(1) /\ pc[1] = "safelock_ret"
    /\ iso[1].have = 6 /\ iso[1].locks = 1
    /\ own[1][1] = ERTS_PROC_LOCKS_ALL

\* C21: reference count balance of erts_pid2proc_opt.  When the call
\* returns, the reference count of the process in the slot asked for is one
\* higher than at the call if INC_REFC is set and a process is returned,
\* and as at the call otherwise (NULL, busy, or INC_REFC not set).
LookupRefcBalance ==
    \A t \in Threads :
        Returned(t) =>
            refc[lk[t].pid.pix] =
                lk[t].refc0
                + (IF "INC_REFC" \in lk[t].flags /\ lk[t].result \in Procs
                   THEN 1 ELSE 0)

\* Thread t takes the step of lines 970-977 that looks again at the process
\* it has locked.
FinalCheck(t) ==
    /\ lk[t].active /\ ~sl[t].active /\ lk[t].proc # 0
    /\ pc[t] \in {"lookup_final", "safelock_ret"}
    /\ pc'[t] # pc[t]

EntryHave(t, p) ==
    BitOr(IF sl[t].a_proc = p THEN sl[t].a_have ELSE 0,
          IF sl[t].b_proc = p THEN sl[t].b_have ELSE 0)

EntryNeed(t, p) ==
    BitOr(IF sl[t].a_proc = p THEN sl[t].a_need ELSE 0,
          IF sl[t].b_proc = p THEN sl[t].b_need ELSE 0)

\* Thread t is in erts_proc_safelock and has called erts_proc_unlock on the
\* last locks it owned on p.
Pinning(t, p) ==
    /\ sl[t].active /\ EntryHave(t, p) # 0
    /\ \/ own[t][p] = 0
       \/ pc[t] = "unlock_cas" /\ lv[t].p = p /\ lv[t].locks = own[t][p]

\* C23: reference counting in erts_proc_safelock.  For an unmanaged caller
\* the reference count of a process is incremented in the step that calls
\* erts_proc_unlock on the last locks owned on it, before any of them is
\* released; it stays incremented while the caller owns no lock of the
\* process; it is decremented only in the step that returns, with every
\* lock of the need masks owned; at the return every count is as at the
\* call.  A managed caller changes no reference count.
SafelockRefc ==
    /\ [](\A p \in Procs :
             /\ (\E t \in Threads \ cfg.managed : Pinning(t, p)) => refc[p] = 2
             /\ (\A t \in Threads : ~sl[t].active \/ t \in cfg.managed)
                    => refc[p] = 1)
    /\ [][\A p \in Procs :
             /\ refc'[p] > refc[p] =>
                   \E t \in Threads \ cfg.managed :
                       /\ sl'[t].active /\ pc'[t] = "unlock_cas"
                       /\ lv'[t].p = p /\ lv'[t].locks = own[t][p]
                       /\ own[t][p] # 0 /\ own'[t][p] = own[t][p]
                       /\ refc'[p] = refc[p] + 1
             /\ refc'[p] < refc[p] =>
                   \E t \in Threads \ cfg.managed :
                       /\ sl[t].active /\ ~sl'[t].active
                       /\ pc'[t] = "safelock_ret"
                       /\ \A q \in Procs :
                             BitAnd(own[t][q], EntryNeed(t, q))
                                 = EntryNeed(t, q)
                       /\ refc'[p] = refc[p] - 1]_vars

\* An unmanaged thread that owned locks 1 and 2 of process 2 called
\* erts_proc_safelock for lock 0 of process 1 too; it has released both
\* locks of process 2, whose reference count is raised, and is about to
\* lock them again.
C23_Witness ==
    \E t \in Threads \ cfg.managed :
        /\ sl[t].active /\ sl[t].stage = "lock"
        /\ sl[t].p1 = 1 /\ sl[t].p2 = 2
        /\ EntryHave(t, 2) = 6 /\ EntryNeed(t, 1) = LockBit(0)
        /\ own[t] = [p \in Procs |-> IF p = 1 THEN LockBit(0) ELSE 0]
        /\ refc = [p \in Procs |-> IF p = 2 THEN 2 ELSE 1]

\* Thread t called erts_proc_safelock as in scenario S4: process 2 stands
\* for A (the greater identifier) and process 1 for B; nothing is owned on
\* A, whose locks 0 and 1 are needed, and lock 2 is owned on B, whose lock 0
\* is needed.
ScenarioS4(t) ==
    /\ sl[t].a_proc = 2 /\ sl[t].a_have = 0 /\ sl[t].a_need = 3
    /\ sl[t].b_proc = 1 /\ sl[t].b_have = LockBit(2)
    /\ sl[t].b_need = LockBit(0)

IsPrefix(s, r) == Len(s) <= Len(r) /\ s = SubSeq(r, 1, Len(s))

\* The calls of scenario S4 as the specification lists them, and as
\* proc_safelock makes them.
S4Listed ==
    << <<"unlock", 1, LockBit(2)>>, <<"lock", 1, LockBit(0)>>,
       <<"lock", 1, LockBit(2)>>, <<"lock", 2, 3>> >>

S4Made ==
    << <<"unlock", 1, LockBit(2)>>, <<"lock", 1, LockBit(0)>>,
       <<"lock", 2, 3>>, <<"lock", 1, LockBit(2)>> >>

\* C24 as stated: in scenario S4 p1 is B and p2 is A, lock 2 of B is
\* unlocked, and then erts_proc_lock is called on lock 0 of B, on lock 2 of
\* B, and on locks 0 and 1 of A, in that order.
SafelockS4Listed ==
    \A t \in Threads :
        ScenarioS4(t) =>
            /\ sl[t].active => sl[t].p1 = 1 /\ sl[t].p2 = 2
            /\ IsPrefix(sl[t].called, S4Listed)
            /\ pc[t] = "safelock_ret" => sl[t].called = S4Listed

\* C24, amended: the same with the calls in lock order: lock 0 of B, locks
\* 0 and 1 of A, lock 2 of B.
SafelockS4 ==
    \A t \in Threads :
        ScenarioS4(t) =>
            /\ sl[t].active => sl[t].p1 = 1 /\ sl[t].p2 = 2
            /\ IsPrefix(sl[t].called, S4Made)
            /\ pc[t] = "safelock_ret" => sl[t].called = S4Made

\* The call of scenario S4 has returned: the caller owns locks 0 and 2 of
\* B and locks 0 and 1 of A.
C24_Witness ==
    \E t \in Threads :
        /\ ScenarioS4(t) /\ pc[t] = "safelock_ret" /\ Len(sl[t].called) = 4
        /\ own[t] = [p \in Procs |-> IF p = 1 THEN 5 ELSE 3]

\* Thread t returns from an erts_proc_unlock of locks 0 and 1 that it ran
\* alone, and that it called with the queue of lock 0 holding threads that
\* all wait in erts_proc_lock for locks 0 and 1, and the queue of lock 1
\* empty.
S6Unlock(t) ==
    /\ iso[t].kind = "unlock" /\ iso[t].alone /\ iso[t].locks = 3
    /\ pc[t] # "unlock_ret" /\ pc'[t] = "unlock_ret"
    /\ iso[t].q0[0] # <<>> /\ iso[t].q0[1] = <<>>
    /\ \A u \in Elems(iso[t].q0[0]) : lv[u].locks = 3

\* C25: two waiters (S6).  With T2 and then T3 parked on the queue of lock
\* 0, both for locks 0 and 1, and the queue of lock 1 empty, an
\* erts_proc_unlock of locks 0 and 1 that runs alone returns without
\* dequeuing from an empty queue, with the first waiter owning locks 0 and 1
\* and woken (uflgs 0, uaflgs 0, event set) and the second still parked on
\* the queue of lock 0 with uflgs = {0,1}; the same unlock by T2, with T3
\* alone on the queue, wakes T3 owning locks 0 and 1.
TwoWaiters ==
    /\ [](\A t \in Threads : pc[t] # "crash")
    /\ [][\A t \in Threads :
             S6Unlock(t) =>
                 LET p == iso[t].p
                     q == iso[t].q0[0]
                     u == Head(q)
                 IN  /\ BitAnd(own'[t][p], 3) = 0
                     /\ own'[u][p] = 3
                     /\ uflgs'[u] = 0 /\ uaflgs'[u] = 0 /\ event'[u]
                     /\ queue'[p][0] = Tail(q) /\ queue'[p][1] = <<>>
                     /\ \A w \in Elems(Tail(q)) :
                           /\ uflgs'[w] = 3 /\ uaflgs'[w] # 0
                           /\ own'[w][p] = 0
                     /\ BitAnd(LockFlags(flags'[p]), 3) = 3
                     /\ WaitFlags(flags'[p])
                            = (IF Tail(q) = <<>> THEN 0 ELSE LockBit(0))]_vars

\* T1 has unlocked locks 0 and 1 with T2 and T3 queued in that order, and
\* T2, which has returned from its erts_proc_lock, has unlocked them with T3
\* queued: T3 owns locks 0 and 1 and its event is set.
C25_Witness ==
    /\ iso[1].kind = "unlock" /\ iso[1].alone /\ iso[1].locks = 3
    /\ iso[1].q0[0] = <<2, 3>> /\ iso[1].q0[1] = <<>> /\ pc[1] = "unlock_ret"
    /\ iso[2].kind = "unlock" /\ iso[2].alone /\ iso[2].locks = 3
    /\ iso[2].q0[0] = <<3>> /\ iso[2].q0[1] = <<>> /\ pc[2] = "unlock_ret"
    /\ own[3][1] = 3 /\ uflgs[3] = 0 /\ uaflgs[3] = 0 /\ event[3]
    /\ lv[3].locks = 3 /\ own[2][1] = 0 /\ queue[1][0] = <<>>

\* Thread t returns from an erts_proc_unlock that it ran alone and whose
\* locks include lock b, called with thread u alone on the queue of b and
\* waiting in erts_proc_lock for lock b only.
S2Unlock(t, u, b) ==
    /\ iso[t].kind = "unlock" /\ iso[t].alone /\ Has(iso[t].locks, b)
    /\ pc[t] # "unlock_ret" /\ pc'[t] = "unlock_ret"
    /\ iso[t].q0[b] = <<u>>
    /\ lv[u].p = iso[t].p /\ lv[u].locks = LockBit(b)

\* What C26 states of the return of such an unlock.
HandedOver(t, u, b) ==
    LET p == iso[t].p
    IN  /\ ~Has(WaitFlags(flags'[p]), b)
        /\ queue'[p][b] = <<>>
        /\ Has(LockFlags(flags'[p]), b)
        /\ uflgs'[u] = 0 /\ uaflgs'[u] = 0 /\ event'[u]
        /\ Has(own'[u][p], b)
        /\ ~Has(own'[t][p], b)

\* A thread that leaves the wait loop returns from erts_proc_lock, with
\* uflgs and uaflgs 0, owning the locks it asked for.
WokenOwns ==
    \A u \in Threads :
        (pc[u] = "tse_read" /\ pc'[u] # "tse_read") =>
            \/ pc'[u] = "tse_wait" /\ uaflgs[u] # 0
            \/ /\ pc'[u] = "lock_ret" /\ uaflgs[u] = 0 /\ uflgs[u] = 0
               /\ BitAnd(own'[u][lv[u].p], lv[u].locks) = lv[u].locks
               /\ lv'[u].locks = lv[u].locks

\* C26 as stated: hand-off to the last waiter (S2).  When lock b is
\* unlocked with one thread on its queue and that thread needs only b, then
\* at the return of the unlock the wait flag of b is clear, the queue of b
\* is empty, the lock flag of b is set, and the waiter has uflgs 0, uaflgs 0
\* and its event set and owns b; the waiter then returns from
\* erts_proc_lock owning b.
LastWaiterAny ==
    /\ [][\A t \in Threads, u \in Threads, b \in LockNos :
             S2Unlock(t, u, b) => HandedOver(t, u, b)]_vars
    /\ [][WokenOwns]_vars

\* C26, amended: the same when no thread queued on another lock of the
\* same unlock asked for b as well.
LastWaiter ==
    /\ [][\A t \in Threads, u \in Threads, b \in LockNos :
             (/\ S2Unlock(t, u, b)
              /\ \A n \in LockNos \ {b} : \A w \in Elems(iso[t].q0[n]) :
                    Has(iso[t].locks, n) => ~Has(lv[w].locks, b))
                 => HandedOver(t, u, b)]_vars
    /\ [][WokenOwns]_vars

\* T1 has unlocked lock 0 with T2 alone on its queue, waiting for lock 0
\* only, and T2 has returned from erts_proc_lock owning lock 0.
C26_Witness ==
    /\ iso[1].kind = "unlock" /\ iso[1].alone /\ pc[1] = "unlock_ret"
    /\ iso[1].locks = LockBit(0) /\ iso[1].q0[0] = <<2>>
    /\ pc[2] = "lock_ret" /\ lv[2].locks = LockBit(0) /\ lv[2].path = "park"
    /\ own[2][1] = LockBit(0) /\ queue[1][0] = <<>>
    /\ flags[1] = BitOr(LockBit(0), BitAnd(flags[1], BitOr(6, WaitBit(1))))
    /\ uflgs[2] = 0 /\ uaflgs[2] = 0

\* The lock numbers 0..OrderMaxBit set in word w, and the mask of a set of
\* them.
OrderBits(w) == {n \in 0 .. OrderMaxBit : Has(w, n)}

OrderMask(S) ==
    CHOOSE m \in 0 .. 2 ^ (OrderMaxBit + 1) - 1 : OrderBits(m) = S

\* C27: the result of in_order_locks.  For every flags word in_use and
\* every mask need_locks the result is the locks of need_locks below the
\* lowest lock that is both needed and locked in in_use, and need_locks
\* when no needed lock is locked; it has no locked lock, no lock outside
\* need_locks and no wait flag, and it is what the call gives with the
\* locked locks that are not needed taken out of in_use.
InOrderResult ==
    \A t \in Threads :
        pc[t] = "in_order_ret" =>
            LET in_use == lv[t].olflgs
                need == lv[t].need_locks
                res == lv[t].got_locks
                both == OrderBits(in_use) \cap OrderBits(need)
            IN  /\ res = OrderMask(IF both = {} THEN OrderBits(need)
                                   ELSE {n \in OrderBits(need) :
                                            n < Lowest(both)})
                /\ both = {} => res = need
                /\ OrderBits(res) \cap OrderBits(in_use) = {}
                /\ OrderBits(res) \subseteq OrderBits(need)
                /\ res < 2 ^ (OrderMaxBit + 1)
                /\ res = in_order_locks(BitAnd(in_use, need), need)
                /\ (need = 23 /\ OrderBits(in_use) = {2}) => res = 3
                /\ (need = 5 /\ OrderBits(in_use) = {1}) => res = 5

\* The example of the comment: need 10111 with 00100 locked, and a wait
\* flag set besides, has given 00011.
C27_Witness ==
    /\ pc[1] = "in_order_ret"
    /\ lv[1].need_locks = 23 /\ lv[1].olflgs = 4 + 2 ^ (OrderMaxBit + 1)
    /\ lv[1].got_locks = 3

\* The places of thread t in the queues: process, lock and position.
Places(t) ==
    {x \in Procs \X LockNos \X (1 .. NThreads * 2) :
        x[3] <= Len(queue[x[1]][x[2]]) /\ queue[x[1]][x[2]][x[3]] = t}

\* What C28 states of thread t and its waiter object.
Placed(t) ==
    LET p == lv[t].p
    IN  /\ (uflgs[t] # 0 /\ pix[PIX(p)] = 0) =>
              LET n == Lowest(Bits(uflgs[t]))
              IN  /\ p \in Procs
                  /\ Cardinality(Places(t)) = 1
                  /\ \A x \in Places(t) : x[1] = p /\ x[2] = n
                  /\ BitAnd(uflgs[t], lv[t].locks) = uflgs[t]
                  /\ \A b \in Bits(lv[t].locks) : b < n => Has(own[t][p], b)
                  /\ BitAnd(own[t][p], uflgs[t]) = 0
        /\ uflgs[t] = 0 => \A x \in Places(t) : pix[PIX(x[1])] # 0

Waking(u, t, at) == pc[u] = at /\ lv[u].wake # <<>> /\ Head(lv[u].wake) = t

\* C29: wake-up discipline.  uaflgs of a thread is set by the thread
\* itself when it parks, and it is set only in the wait loop; it is cleared
\* only by another thread in the wake loop of transfer_locks, with uflgs of
\* the waiter 0, and only when it is set; the thread that clears it sets
\* the event of the same waiter next, and events are set by no other step.
\* A thread leaves the wait loop only from the read of uaflgs, with
\* uaflgs = 0, and returns from erts_proc_lock; with uaflgs set, whatever
\* erts_tse_wait returned, it stays in the loop.  No waiter stands twice on
\* the wake lists with its uaflgs still to be cleared.
WakeUp ==
    /\ [](\A t \in Threads : uaflgs[t] # 0 => Parked(t))
    /\ [](\A t \in Threads :
             Cardinality({x \in Threads \X (1 .. NThreads) :
                             /\ pc[x[1]] \in {"transfer_locks", "try_aquire",
                                              "try_band", "wake_flag",
                                              "wake_set"}
                             /\ x[2] <= Len(lv[x[1]].wake)
                             /\ ~(pc[x[1]] = "wake_set" /\ x[2] = 1)
                             /\ lv[x[1]].wake[x[2]] = t}) <= 1)
    /\ [][\A t \in Threads :
             /\ (Parked(t) /\ ~Parked(t)') =>
                   /\ pc[t] = "tse_read" /\ uaflgs[t] = 0 /\ uflgs[t] = 0
                   /\ pc'[t] = "lock_ret"
             /\ (Parked(t) /\ uaflgs[t] # 0) => Parked(t)'
             /\ (uaflgs[t] # 0 /\ uaflgs'[t] = 0) =>
                   /\ uflgs[t] = 0
                   /\ \E u \in Threads \ {t} :
                         Waking(u, t, "wake_flag") /\ Waking(u, t, "wake_set")'
             /\ (uaflgs[t] = 0 /\ uaflgs'[t] # 0) =>
                   ~Parked(t) /\ pc'[t] = "tse_reset"
             /\ (~event[t] /\ event'[t]) =>
                   \E u \in Threads \ {t} : Waking(u, t, "wake_set")
             /\ (pc[t] = "wake_flag" /\ pc'[t] # "wake_flag") =>
                   /\ uaflgs[Head(lv[t].wake)] # 0
                   /\ uaflgs'[Head(lv[t].wake)] = 0
                   /\ Waking(t, Head(lv[t].wake), "wake_set")'
             /\ (pc[t] = "wake_set" /\ pc'[t] # "wake_set") =>
                   /\ event'[Head(lv[t].wake)]
                   /\ \/ pc'[t] = "unlock_ret" /\ Tail(lv[t].wake) = <<>>
                      \/ pc'[t] = "wake_flag"
                            /\ lv'[t].wake = Tail(lv[t].wake)]_vars

\* A thread parked for the second time has its event set by the releaser of
\* its first park, with uaflgs still set: the wake-up it gets is spurious.
C29_Witness ==
    \E t \in Threads :
        /\ pc[t] = "tse_wait" /\ uaflgs[t] # 0 /\ uflgs[t] # 0 /\ event[t]
        /\ \A u \in Threads : lv[u].wake = <<>>

\* Thread t takes the step.
Steps(t) == pc'[t] # pc[t] \/ lv'[t] # lv[t] \/ sl'[t] # sl[t]

\* C30: wait flags change only under the pix lock.  Every step that
\* changes a wait flag of a process or one of its queues is taken by the
\* thread that holds the pix lock of that process; the trylock of
\* erts_proc_lock, the compare-and-exchange of erts_proc_unlock and the
\* spinning compare-and-exchange of erts_proc_lock_failed change no wait
\* flag and no queue.
WaitFlagsUnderPix ==
    [][/\ \A p \in Procs :
             (WaitFlags(flags'[p]) # WaitFlags(flags[p])
                 \/ queue'[p] # queue[p]) =>
                 \E t \in Threads : pix[PIX(p)] = t /\ Steps(t)
       /\ \A t \in Threads :
             (/\ Steps(t)
              /\ \/ Resting(t)
                 \/ pc[t] \in {"lock_failed", "unlock_cas"}) =>
                 /\ queue' = queue
                 /\ \A p \in Procs : WaitFlags(flags'[p]) = WaitFlags(flags[p])
                 /\ \A i \in DOMAIN pix : pix[i] # t]_vars

\* A thread holds the pix lock of process 2 in transfer_locks: it has
\* taken the only waiter off the queue of lock 0 and has not cleared the
\* wait flag yet; the pix lock of process 1 is free.
C30_Witness ==
    \E t \in Threads :
        /\ pix[PIX(2)] = t /\ pix[PIX(1)] = 0
        /\ pc[t] = "transfer_locks" /\ lv[t].p = 2
        /\ Has(WaitFlags(flags[2]), 0) /\ queue[2][0] = <<>>
        /\ lv[t].unset_waiter = LockBit(0)

\* ---------------------------------------------------------------- spinning
\* A loop turn of erts_proc_lock_failed made by thread t.
SpinTurn(t) ==
    /\ pc[t] = "lock_failed"
    /\ (pc'[t] # pc[t] \/ lv'[t] # lv[t])

\* What the turn of t finds grabbable.
SpinCanGrab(t) == in_order_locks(lv[t].olflgs, lv[t].need_locks)

\* The turn of t went to park in wait_for_locks.
SpinParks(t) == pc'[t] = "wait_for_locks"

\* The compare-and-exchange of the turn of t succeeded and locks remain
\* to be taken.
SpinProgress(t) ==
    /\ own'[t] # own[t]
    /\ pc'[t] = "lock_failed"

\* With a budget of 0 the first turn that finds nothing grabbable parks;
\* it does not read the flags again.
SpinBudgetZero ==
    [][\A t \in Threads :
          (SpinTurn(t) /\ thr_spin_count[t] = 0 /\ SpinCanGrab(t) = 0)
              => SpinParks(t)]_vars

\* The budget is set back to n after every successful compare-and-exchange.
SpinBudgetReset ==
    [][\A t \in Threads :
          (SpinTurn(t) /\ SpinProgress(t))
              => lv'[t].spin_count = thr_spin_count[t]]_vars

\* C31 as stated: with a budget of 0 a slow-path lock parks at the first
\* turn that finds nothing grabbable; with a budget n > 0 it has parked
\* once n + 1 turns in a row made no progress, so that inside the loop at
\* most n turns without progress lie behind; the budget is n again after
\* every successful compare-and-exchange.
SpinBudgetAnyTurn ==
    /\ SpinBudgetZero
    /\ [](\A t \in Threads :
            (pc[t] = "lock_failed" /\ thr_spin_count[t] > 0)
                => lv[t].idle <= thr_spin_count[t])
    /\ SpinBudgetReset

\* C31, amended: only the turns that find nothing grabbable use the budget.
\* With a budget of 0 the first such turn parks.  With a budget n > 0 each
\* such turn takes one from the budget and reads the flags again, and the
\* one that finds the budget at 0 parks, which is at the latest the turn
\* n + 1 of this kind since the last successful compare-and-exchange; a
\* turn whose compare-and-exchange fails leaves the budget as it is.  The
\* budget is n again after every successful compare-and-exchange.
SpinBudget ==
    /\ SpinBudgetZero
    /\ [](\A t \in Threads :
            pc[t] = "lock_failed"
                => lv[t].spin_count \in 0 .. thr_spin_count[t])
    /\ [][\A t \in Threads :
            SpinTurn(t) =>
                /\ (SpinCanGrab(t) = 0 /\ lv[t].spin_count = 0)
                       => SpinParks(t)
                /\ (SpinCanGrab(t) = 0 /\ lv[t].spin_count > 0)
                       => /\ pc'[t] = "lock_failed"
                          /\ lv'[t].spin_count = lv[t].spin_count - 1
                          /\ lv'[t].olflgs = flags[lv[t].p]
                /\ (SpinCanGrab(t) # 0 /\ own'[t] = own[t])
                       => /\ pc'[t] = "lock_failed"
                          /\ lv'[t].spin_count = lv[t].spin_count]_vars
    /\ SpinBudgetReset

\* A thread with a budget above 0 is in the loop after more turns without
\* progress than its budget: a compare-and-exchange of it has failed.
C31_Witness ==
    \E t \in Threads :
        /\ pc[t] = "lock_failed"
        /\ thr_spin_count[t] > 0
        /\ lv[t].idle > thr_spin_count[t]
        /\ lv[t].spin_count = 0

\* ------------------------------------------------- order inside safelock
\* proc_safelock of thread t makes a call of erts_proc_unlock or
\* erts_proc_lock in this step; the call is the last one of called'.
SafelockCalls(t) ==
    /\ sl'[t].active
    /\ sl'[t].called # <<>>
    /\ ~sl[t].active \/ Len(sl'[t].called) > Len(sl[t].called)

SafelockCall(t) == sl'[t].called[Len(sl'[t].called)]

\* Lock b of process q comes before lock n of process p in the global
\* order: lock number first, process identifier second.
GlobalBefore(b, q, n, p) == b < n \/ (b = n /\ q < p)

\* The locks from n upwards.
FromLock(n) == ERTS_PROC_LOCKS_ALL - (LockBit(n) - 1)

\* The locks the caller of the erts_proc_safelock call s holds, and the
\* locks it still needs (need without have), on the one process of a call
\* that names one process.
SafelockHave(s) == BitOr(s.a_have, s.b_have)
SafelockNeed(s) == BitClear(BitOr(s.a_need, s.b_need), SafelockHave(s))

\* C32: erts_proc_safelock never locks out of order.  At every
\* erts_proc_lock call it makes, for a run of locks of process p, the caller
\* owns, on the processes passed, only locks that come before the lowest
\* lock of the run in the global order.  In a call on one process that
\* still needs a lock below one it holds, the locks held from the lowest
\* needed one upwards are unlocked first, and they and the needed ones are
\* then locked by one erts_proc_lock call, which takes them in ascending
\* order.
SafelockInOrder ==
    [][\A t \in Threads :
          (SafelockCalls(t) /\ SafelockCall(t)[1] = "lock") =>
              LET s == sl'[t]
                  c == SafelockCall(t)
                  n == Lowest(Bits(c[3]))
                  have == SafelockHave(s)
                  need == SafelockNeed(s)
                  low == Lowest(Bits(need))
                  back == BitAnd(have, FromLock(low))
              IN  /\ c[3] # 0
                  /\ \A q \in {s.p1, s.p2} \ {0} :
                        \A b \in Bits(own[t][q]) :
                            GlobalBefore(b, q, n, c[2])
                  /\ (s.p2 = 0 /\ need # 0 /\ back # 0) =>
                        /\ s.called = <<<<"unlock", s.p1, back>>,
                                        <<"lock", s.p1, BitOr(need, back)>>>>
                        /\ BitAnd(own[t][s.p1], FromLock(low)) = 0]_vars

\* erts_proc_safelock on one process has unlocked a lock above the lowest
\* one needed and locked it again together with the needed ones.
C32_Witness ==
    \E t \in Threads :
        LET s == sl[t]
        IN  /\ s.active /\ s.p2 = 0 /\ pc[t] = "lock_ret"
            /\ Len(s.called) = 2 /\ s.called[1][1] = "unlock"
            /\ s.called[2][1] = "lock"
            /\ BitAnd(s.called[2][3], s.called[1][3]) = s.called[1][3]
            /\ Lowest(Bits(s.called[2][3])) < Lowest(Bits(s.called[1][3]))
            /\ BitAnd(own[t][s.p1], s.called[2][3]) = s.called[2][3]

\* ------------------------------------------- no free lock with waiters
\* Thread t takes lock n of process p in this step without the pix lock:
\* on the fast path of erts_proc_lock, or by the compare-and-exchange of the
\* loop of erts_proc_lock_failed.
FastTake(t, p, n) ==
    /\ ~Has(own[t][p], n) /\ Has(own'[t][p], n)
    /\ \/ pc'[t] = "lock_failed"
       \/ pc'[t] = "lock_ret" /\ lv'[t].path \in {"fast", "spin"}

\* C33: no free lock with waiters.  In every reachable state a lock whose
\* wait flag is set has its lock flag set; and a lock taken on the fast path
\* or while spinning had its lock flag clear, so its wait flag was clear and
\* no thread was in its queue.
NoFreeLockWithWaiters ==
    /\ [](\A p \in Procs, n \in LockNos :
            Has(flags[p], n + ERTS_PROC_LOCK_WAITER_SHIFT) => Has(flags[p], n))
    /\ [][\A t \in Threads, p \in Procs, n \in LockNos :
            FastTake(t, p, n) =>
                /\ ~Has(flags[p], n)
                /\ ~Has(flags[p], n + ERTS_PROC_LOCK_WAITER_SHIFT)
                /\ queue[p][n] = <<>>]_vars

\* A thread spins for a lock that another thread owns and a third thread
\* is queued for.
C33_Witness ==
    \E t \in Threads, p \in Procs, n \in LockNos :
        /\ pc[t] = "lock_failed" /\ lv[t].p = p /\ Has(lv[t].need_locks, n)
        /\ Has(flags[p], n + ERTS_PROC_LOCK_WAITER_SHIFT) /\ Has(flags[p], n)
        /\ queue[p][n] # <<>>
        /\ \E u \in Threads \ {t} : Has(own[u][p], n)

\* --------------------------------------------- transfer meets waiters
\* A turn of transfer_locks made by thread t.
TransferTurn(t) ==
    /\ pc[t] = "transfer_locks"
    /\ (pc'[t] # pc[t] \/ lv'[t] # lv[t])

\* The threads that come to own lock n of process p in this step.
Gainers(p, n) ==
    {u \in Threads : ~Has(own[u][p], n) /\ Has(own'[u][p], n)}

\* C34: transfer_locks is entered with waiters present.  Every lock passed
\* to erts_proc_unlock_failed has, when transfer_locks dequeues for it, its
\* wait flag set and a queue that is not empty; the waiter dequeued, the
\* first of the queue, has the lock in uflgs; the lock goes to this waiter
\* and to no other thread; at the end of the loop 'transferred' is the
\* number of locks passed in; and dequeue_waiter never meets an empty
\* queue.
TransferMeetsWaiters ==
    /\ [](\A t \in Threads : pc[t] # "crash")
    /\ [][\A t \in Threads :
            TransferTurn(t) =>
                LET f == lv[t]
                    p == f.p
                    n == NextBit(f.trnsfr_lcks, f.xlock_no)
                IN  IF HasNextBit(f.trnsfr_lcks, f.xlock_no)
                    THEN /\ Has(flags[p], n + ERTS_PROC_LOCK_WAITER_SHIFT)
                         /\ queue[p][n] # <<>>
                         /\ Has(uflgs[Head(queue[p][n])], n)
                         /\ queue'[p][n] = Tail(queue[p][n])
                         /\ Has(own[t][p], n) /\ ~Has(own'[t][p], n)
                         /\ Gainers(p, n) = {Head(queue[p][n])}
                         /\ lv'[t].transferred = f.transferred + 1
                    ELSE /\ f.transferred = Cardinality(Bits(f.trnsfr_lcks))
                         /\ f.transferred >= 1]_vars

\* transfer_locks has handed over the two locks passed in and a thread is
\* still queued.
C34_Witness ==
    \E t \in Threads, n \in LockNos :
        /\ pc[t] = "transfer_locks"
        /\ lv[t].transferred = 2
        /\ Cardinality(Bits(lv[t].trnsfr_lcks)) = 2
        /\ ~HasNextBit(lv[t].trnsfr_lcks, lv[t].xlock_no)
        /\ queue[lv[t].p][n] # <<>>

\* ------------------------------------------------------ pix lock discipline
HoldsPix(t) == \E i \in DOMAIN pix : pix[i] = t
TakesPix(t) == \E i \in DOMAIN pix : pix[i] # t /\ pix'[i] = t
DropsPix(t) == \E i \in DOMAIN pix : pix[i] = t /\ pix'[i] # t

\* Where a thread is after wait_for_locks or erts_proc_unlock_failed took
\* the pix lock, up to the return of the call.
AfterPix ==
    {"try_aquire", "try_band", "tse_reset", "tse_read", "tse_wait",
     "transfer_locks", "wake_flag", "wake_set"}

\* C35: pix lock discipline.  A thread that waits on its event (the loop
\* of wait_for_locks) or sets the event of a waiter (the wake loop of
\* transfer_locks) holds no pix lock.  erts_proc_lock_failed takes the pix
\* lock only on entering wait_for_locks and erts_proc_unlock takes it only
\* in erts_proc_unlock_failed, each once in a call: after it the thread does
\* not come back to these places before the call returns, and the pix lock,
\* once dropped, is not taken again.  A call that has returned holds no pix
\* lock, whether or not it woke a waiter.
StripeDiscipline ==
    /\ [](\A t \in Threads :
            (Parked(t) \/ pc[t] \in {"wake_flag", "wake_set",
                                     "lock_ret", "unlock_ret"})
                => ~HoldsPix(t))
    /\ [][\A t \in Threads :
            /\ (~event[t] /\ event'[t]) =>
                  \E u \in Threads \ {t} :
                      /\ pc[u] = "wake_set" /\ pc'[u] # pc[u]
                      /\ Head(lv[u].wake) = t
                      /\ ~HoldsPix(u)
            /\ TakesPix(t) =>
                  /\ pc[t] \in {"wait_for_locks", "unlock_failed"}
                  /\ ~HoldsPix(t)
                  /\ pc'[t] \in {"try_aquire", "transfer_locks"}
            /\ DropsPix(t) =>
                  /\ pc[t] \in {"try_aquire", "try_band", "transfer_locks"}
                  /\ pc'[t] \in {"lock_ret", "tse_reset",
                                 "unlock_ret", "wake_flag"}
                  /\ ~HoldsPix(t)'
            /\ (pc[t] \in AfterPix /\ pc'[t] # pc[t]) =>
                  pc'[t] \in AfterPix \cup {"lock_ret", "unlock_ret"}]_vars

\* A thread has dropped the pix lock and sets the event of a waiter, while
\* another thread holds the pix lock and a third waits on its event.
C35_Witness ==
    \E t \in Threads, u \in Threads, w \in Threads :
        /\ pc[t] = "wake_set" /\ ~HoldsPix(t)
        /\ HoldsPix(u) /\ u # t
        /\ pc[w] = "tse_wait" /\ w # t /\ w # u


====
